---- MODULE Spec2Model ----
(***************************************************************************)
(* nextdns-blocker: schedule evaluation and denylist/allowlist             *)
(* reconciliation.                                                         *)
(*                                                                         *)
(* The repository carries two implementations side by side:                *)
(*   - the package  src/src/nextdns_blocker/{scheduler,client,cli}.py      *)
(*     (ScheduleEvaluator, NextDNSClient, the click command `sync`);       *)
(*   - the single-file script  src/nextdns_blocker.py                      *)
(*     (its own ScheduleEvaluator, the same NextDNSClient, `cmd_sync`).    *)
(* Definitions translated from the single-file script carry the prefix     *)
(* mono_ when the package defines the same name.                           *)
(*                                                                         *)
(* Specifications:                                                         *)
(*   Spec       the reconciler: sync passes, manual unblock, pause         *)
(*   SpecDefect the reconciler on a configuration with a defective entry   *)
(*   SpecSched  the schedule evaluators applied to bounded inputs          *)
(*   SpecMalformed  the evaluators applied to schedules with time strings  *)
(*                  that are not HH:MM                                     *)
(*   SpecClient   NextDNSClient operations against the remote lists        *)
(*   SpecLimiter  RateLimiter.acquire                                      *)
(*   SpecRequest  the retry loop of NextDNSClient.request                  *)
(*   SpecValidate the write operations called with arbitrary names         *)
(***************************************************************************)
EXTENDS Integers, Sequences, FiniteSets, TLC

VARIABLES
    config,      \* [domains: Seq(DomainRule), allowlist: Seq(name)], loaded once
    now,         \* evaluation instant [day: 0..6, time: seconds of day]
    denylist,    \* remote denylist (set of ids)
    allowlist,   \* remote allowlist (set of ids)
    paused,      \* an unexpired pause file exists
    pc,          \* position of the running command
    client,      \* NextDNSClient of the running process: caches and clock
    log,         \* HTTP requests sent by the running / last command, in order
    actions,     \* SyncActions emitted by the running / last pass, in order
    evaluated,   \* configuration items the running / last pass has handled
    result,      \* what the last finished command reported
    prev,        \* summary of the pass that finished just before, for back-to-back runs
    passes,      \* number of commands started so far
    sched,       \* SpecSched: schedule given to the evaluators
    verdict,     \* SpecSched: last evaluation [at, pkg, mono]
    call,        \* SpecClient: the last client operation and what it returned
    limiter,     \* SpecLimiter: a RateLimiter, its clock and its history
    http         \* SpecRequest: one NextDNSClient.request() call in progress

vars == <<config, now, denylist, allowlist, paused, pc, client, log, actions,
          evaluated, result, prev, passes, sched, verdict, call, limiter, http>>

(***************************************************************************)
(* Bounds of the model.                                                    *)
(***************************************************************************)
MaxFaults == 1      \* failed HTTP requests per command
MaxPasses == 2      \* commands run in one behaviour
MaxTicks == 1       \* clock advances of ClockStep seconds within one process

(***************************************************************************)
(* Program constants.                                                      *)
(***************************************************************************)
CACHE_TTL == 60
ClockStep == CACHE_TTL  \* the model lets time pass one cache lifetime at a time
None == "None"

\* list(DAYS_MAP.keys()): index weekday()+1
DAYS_MAP == <<"monday", "tuesday", "wednesday", "thursday", "friday",
              "saturday", "sunday">>

(***************************************************************************)
(* Schedule evaluator, package version (scheduler.py).                     *)
(* A schedule is [shape, available_hours]: shape is "None" (no schedule),  *)
(* "{}" (empty dict), "no_hours" (a dict without 'available_hours') or     *)
(* "hours"; a block is [days: set of day names, time_ranges: Seq].         *)
(* A time string "HH:MM" is the pair <<HH, MM>>; a datetime.time value is  *)
(* its number of seconds since midnight (Python orders time values         *)
(* lexicographically by hour, minute, second, which is the same order).    *)
(* A time string is the sequence of the numbers between its colons, so     *)
(* "0900" is <<900>> and "25:00" is <<25, 0>>; <<>> stands for a time      *)
(* range that has no such key.  An entry of `days` that is not a string    *)
(* (a number, null, a list) is NotAString.                                 *)
(* parse_time, should_block and the loops below give the value computed    *)
(* when no exception is raised; the operators named ..._error give the     *)
(* exception that leaves the same code, "none" if there is none.           *)
(***************************************************************************)
NotAString == "<not a string>"

parse_time(time_str) == time_str[1] * 3600 + time_str[2] * 60

\* scheduler.py 46-66: the checks of parse_time
parse_time_error(time_str) ==
    IF Len(time_str) # 2 THEN "ValueError"
    ELSE IF time_str[1] \notin 0..23 \/ time_str[2] \notin 0..59 THEN "ValueError"
    ELSE "none"

\* start = self.parse_time(time_range['start']); end = ...(time_range['end'])
time_range_error(time_range) ==
    IF time_range.start = <<>> THEN "KeyError"
    ELSE IF parse_time_error(time_range.start) # "none"
    THEN parse_time_error(time_range.start)
    ELSE IF time_range.end = <<>> THEN "KeyError"
    ELSE parse_time_error(time_range.end)

\* mutant: the end of a same-day range taken as exclusive
is_time_in_range_exclusive_end(current, start, end) ==
    IF start <= end
    THEN start <= current /\ current < end
    ELSE current >= start \/ current <= end

is_time_in_range(current, start, end) ==
    IF start <= end
    THEN start <= current /\ current <= end
    ELSE current >= start \/ current <= end

RECURSIVE ranges_today(_, _)
\* inner loop of should_block: TRUE iff some range of the block contains current
ranges_today(time_ranges, current) ==
    IF time_ranges = <<>> THEN FALSE
    ELSE LET start == parse_time(Head(time_ranges).start)
             end == parse_time(Head(time_ranges).end)
         IN IF is_time_in_range(current, start, end) THEN TRUE
            ELSE ranges_today(Tail(time_ranges), current)

RECURSIVE blocks_today(_, _, _)
\* outer loop of should_block over schedule['available_hours']
blocks_today(blocks, day, current) ==
    IF blocks = <<>> THEN FALSE
    ELSE IF DAYS_MAP[day + 1] \notin Head(blocks).days
         THEN blocks_today(Tail(blocks), day, current)
         ELSE IF ranges_today(Head(blocks).time_ranges, current) THEN TRUE
              ELSE blocks_today(Tail(blocks), day, current)

RECURSIVE ranges_yesterday(_, _)
ranges_yesterday(time_ranges, current) ==
    IF time_ranges = <<>> THEN FALSE
    ELSE LET start == parse_time(Head(time_ranges).start)
             end == parse_time(Head(time_ranges).end)
         IN IF start > end /\ current <= end THEN TRUE
            ELSE ranges_yesterday(Tail(time_ranges), current)

RECURSIVE blocks_yesterday(_, _, _)
blocks_yesterday(blocks, yesterday, current) ==
    IF blocks = <<>> THEN FALSE
    ELSE IF DAYS_MAP[yesterday + 1] \notin Head(blocks).days
         THEN blocks_yesterday(Tail(blocks), yesterday, current)
         ELSE IF ranges_yesterday(Head(blocks).time_ranges, current) THEN TRUE
              ELSE blocks_yesterday(Tail(blocks), yesterday, current)

\* mutant: yesterday's overnight window looked for in the first block only
_check_overnight_yesterday_first_block(at, schedule) ==
    blocks_yesterday(IF schedule.available_hours = <<>> THEN <<>>
                     ELSE <<Head(schedule.available_hours)>>,
                     (at.day + 6) % 7, at.time)

_check_overnight_yesterday(at, schedule) ==
    blocks_yesterday(schedule.available_hours, (at.day + 6) % 7, at.time)

RECURSIVE ranges_today_error(_, _)
\* the inner loop stops at the first range that contains current
ranges_today_error(time_ranges, current) ==
    IF time_ranges = <<>> THEN "none"
    ELSE IF time_range_error(Head(time_ranges)) # "none"
    THEN time_range_error(Head(time_ranges))
    ELSE IF is_time_in_range(current, parse_time(Head(time_ranges).start),
                             parse_time(Head(time_ranges).end))
    THEN "none"
    ELSE ranges_today_error(Tail(time_ranges), current)

RECURSIVE blocks_today_error(_, _, _)
\* days = [d.lower() for d in block.get('days', [])] is computed for every
\* block the loop reaches, the ranges only for a block of the current day
blocks_today_error(blocks, day, current) ==
    IF blocks = <<>> THEN "none"
    ELSE IF NotAString \in Head(blocks).days THEN "AttributeError"
    ELSE IF DAYS_MAP[day + 1] \notin Head(blocks).days
    THEN blocks_today_error(Tail(blocks), day, current)
    ELSE IF ranges_today_error(Head(blocks).time_ranges, current) # "none"
    THEN ranges_today_error(Head(blocks).time_ranges, current)
    ELSE IF ranges_today(Head(blocks).time_ranges, current) THEN "none"
    ELSE blocks_today_error(Tail(blocks), day, current)

RECURSIVE ranges_yesterday_error(_, _)
ranges_yesterday_error(time_ranges, current) ==
    IF time_ranges = <<>> THEN "none"
    ELSE IF time_range_error(Head(time_ranges)) # "none"
    THEN time_range_error(Head(time_ranges))
    ELSE IF parse_time(Head(time_ranges).start) > parse_time(Head(time_ranges).end)
            /\ current <= parse_time(Head(time_ranges).end)
    THEN "none"
    ELSE ranges_yesterday_error(Tail(time_ranges), current)

RECURSIVE blocks_yesterday_error(_, _, _)
blocks_yesterday_error(blocks, yesterday, current) ==
    IF blocks = <<>> THEN "none"
    ELSE IF NotAString \in Head(blocks).days THEN "AttributeError"
    ELSE IF DAYS_MAP[yesterday + 1] \notin Head(blocks).days
    THEN blocks_yesterday_error(Tail(blocks), yesterday, current)
    ELSE IF ranges_yesterday_error(Head(blocks).time_ranges, current) # "none"
    THEN ranges_yesterday_error(Head(blocks).time_ranges, current)
    ELSE IF ranges_yesterday(Head(blocks).time_ranges, current) THEN "none"
    ELSE blocks_yesterday_error(Tail(blocks), yesterday, current)

\* the exception that leaves should_block
should_block_error(schedule, at) ==
    IF schedule.shape \in {"None", "{}", "no_hours"} THEN "none"
    ELSE IF blocks_today_error(schedule.available_hours, at.day, at.time) # "none"
    THEN blocks_today_error(schedule.available_hours, at.day, at.time)
    ELSE IF blocks_today(schedule.available_hours, at.day, at.time) THEN "none"
    ELSE blocks_yesterday_error(schedule.available_hours, (at.day + 6) % 7, at.time)

\* mutant: a schedule none of whose windows applies leaves the domain available
should_block_open_by_default(schedule, at) ==
    IF schedule.shape \in {"None", "{}", "no_hours"} THEN TRUE
    ELSE IF blocks_today(schedule.available_hours, at.day, at.time) THEN FALSE
    ELSE IF _check_overnight_yesterday(at, schedule) THEN FALSE
    ELSE FALSE

should_block(schedule, at) ==
    IF schedule.shape \in {"None", "{}", "no_hours"} THEN TRUE
    ELSE IF blocks_today(schedule.available_hours, at.day, at.time) THEN FALSE
    ELSE IF _check_overnight_yesterday(at, schedule) THEN FALSE
    ELSE TRUE

(***************************************************************************)
(* Schedule evaluator, single-file version (nextdns_blocker.py).           *)
(***************************************************************************)
mono_is_time_in_range(current, start, end) ==
    IF start <= end
    THEN start <= current /\ current <= end
    ELSE current >= start \/ current < end

RECURSIVE mono_ranges(_, _)
\* the inner loop of should_block: "available" at the first range that
\* contains current (return False), "blocked" at the first range that cannot
\* be read (except (KeyError, ValueError): return True), "next" at its end
mono_ranges(time_ranges, current) ==
    IF time_ranges = <<>> THEN "next"
    ELSE IF time_range_error(Head(time_ranges)) # "none" THEN "blocked"
    ELSE IF mono_is_time_in_range(current, parse_time(Head(time_ranges).start),
                                  parse_time(Head(time_ranges).end))
    THEN "available"
    ELSE mono_ranges(Tail(time_ranges), current)

RECURSIVE mono_blocks(_, _, _)
\* the outer loop: days = [DAYS_MAP[d.lower()] for d in block.get('days', [])]
\* returns True on a KeyError (a name that is no day); the AttributeError of
\* an entry that is not a string is not caught
mono_blocks(blocks, day, current) ==
    IF blocks = <<>> THEN "blocked"
    ELSE IF NotAString \in Head(blocks).days THEN "AttributeError"
    ELSE IF \E d \in Head(blocks).days : \A k \in 1..7 : DAYS_MAP[k] # d
    THEN "blocked"
    ELSE IF DAYS_MAP[day + 1] \notin Head(blocks).days
    THEN mono_blocks(Tail(blocks), day, current)
    ELSE IF mono_ranges(Head(blocks).time_ranges, current) = "next"
    THEN mono_blocks(Tail(blocks), day, current)
    ELSE mono_ranges(Head(blocks).time_ranges, current)

mono_should_block(schedule, at) ==
    IF schedule.shape \in {"None", "{}", "no_hours"} THEN TRUE
    ELSE mono_blocks(schedule.available_hours, at.day, at.time) # "available"

\* the exception that leaves should_block
mono_should_block_error(schedule, at) ==
    IF schedule.shape \in {"None", "{}", "no_hours"} THEN "none"
    ELSE IF mono_blocks(schedule.available_hours, at.day, at.time) = "AttributeError"
    THEN "AttributeError"
    ELSE "none"

(***************************************************************************)
(* Caches (client.py, DenylistCache; AllowlistCache is the same code).     *)
(* _data is <<>> for None and <<S>> for a fetched list with id set S.      *)
(***************************************************************************)
NewCache == [data |-> <<>>, domains |-> {}, ts |-> 0]

\* mutant: the cache still valid when exactly TTL seconds old
is_valid_inclusive(c, clock) ==
    c.data # <<>> /\ (clock - c.ts) <= CACHE_TTL

is_valid(c, clock) ==
    c.data # <<>> /\ (clock - c.ts) < CACHE_TTL

cache_get(c, clock) == IF is_valid(c, clock) THEN c.data ELSE <<>>

cache_set(c, data, clock) == [data |-> <<data>>, domains |-> data, ts |-> clock]

\* Optional[bool] as "True" / "False" / None
contains(c, domain, clock) ==
    IF ~is_valid(c, clock) THEN None
    ELSE IF domain \in c.domains THEN "True" ELSE "False"

invalidate(c) == [data |-> <<>>, domains |-> {}, ts |-> 0]

\* mutant: without the `_data is not None` guard, the update creating the list
add_domain_creating(c, domain) ==
    [c EXCEPT !.data = IF @ = <<>> THEN <<{domain}>> ELSE @,
              !.domains = @ \cup {domain}]

add_domain(c, domain) ==
    IF c.data # <<>> THEN [c EXCEPT !.domains = @ \cup {domain}] ELSE c

remove_domain(c, domain) == [c EXCEPT !.domains = @ \ {domain}]

(***************************************************************************)
(* Domain names (common.py: DOMAIN_PATTERN, validate_domain).              *)
(* A name is a string; chars(name) is the sequence of its characters,      *)
(* each one standing for its class: "a" a letter or a digit, "-", ".",     *)
(* " " a blank, "\n" a line feed.  The names of up to MaxNameLen           *)
(* characters are generated; the names of the examples are spelled out.    *)
(***************************************************************************)
MaxNameLen == 3     \* characters in a generated name

MAX_DOMAIN_LENGTH == 253
MAX_LABEL_LENGTH == 63

Chars == {"a", "-", ".", " ", "\n"}

Texts == UNION {[1..k -> Chars] : k \in 0..MaxNameLen}

RECURSIVE join(_)
join(text) == IF text = <<>> THEN "" ELSE text[1] \o join(Tail(text))

RawNames == {join(text) : text \in Texts}

Examples ==
    {"work.example.com", "games.example.com", "other.example.com", "docs.example.com"}

\* the characters of every name, tabulated once
Spelling ==
    [name \in Examples \cup RawNames |->
        IF name \in Examples THEN <<"a", ".", "a", ".", "a">>
        ELSE CHOOSE text \in Texts : join(text) = name]

chars(name) == Spelling[name]

\* str.split(sep)
RECURSIVE split(_, _)
split(text, sep) ==
    IF \A k \in 1..Len(text) : text[k] # sep THEN <<text>>
    ELSE LET k == CHOOSE j \in 1..Len(text) :
                      text[j] = sep /\ \A i \in 1..(j - 1) : text[i] # sep
         IN <<SubSeq(text, 1, k - 1)>> \o split(SubSeq(text, k + 1, Len(text)), sep)

\* [a-zA-Z0-9](?:[a-zA-Z0-9-]{0,61}[a-zA-Z0-9])?
label_match(label) ==
    /\ 1 <= Len(label) /\ Len(label) <= MAX_LABEL_LENGTH
    /\ label[1] = "a" /\ label[Len(label)] = "a"
    /\ \A k \in 1..Len(label) : label[k] \in {"a", "-"}

\* the whole text is labels joined by dots
labels_match(text) ==
    LET labels == split(text, ".")
    IN \A k \in 1..Len(labels) : label_match(labels[k])

\* DOMAIN_PATTERN.match(text) is not None: `$` matches at the end of the
\* text and also just before a line feed that ends it
DOMAIN_PATTERN_match(text) ==
    \/ labels_match(text)
    \/ /\ text # <<>> /\ text[Len(text)] = "\n"
       /\ labels_match(SubSeq(text, 1, Len(text) - 1))

validate(text) ==
    IF text = <<>> \/ Len(text) > MAX_DOMAIN_LENGTH THEN FALSE
    ELSE IF text[Len(text)] = "." THEN FALSE
    ELSE DOMAIN_PATTERN_match(text)

\* validate_domain of every name, tabulated once
Validity == [name \in DOMAIN Spelling |-> validate(Spelling[name])]

validate_domain(domain) == Validity[domain]

\* str.strip(): leading and trailing white space removed
RECURSIVE strip(_)
strip(text) ==
    IF text = <<>> THEN text
    ELSE IF text[1] \in {" ", "\n"} THEN strip(Tail(text))
    ELSE IF text[Len(text)] \in {" ", "\n"} THEN strip(SubSeq(text, 1, Len(text) - 1))
    ELSE text

(***************************************************************************)
(* NextDNSClient (client.py; the single-file script has the same code).    *)
(* The operations thread a world record                                    *)
(*   w = [deny, allow: remote lists; cache, acache: the client's caches;   *)
(*        clock: seconds since the process started; log: requests sent;    *)
(*        item: the configuration item the caller is handling]             *)
(* and return [w |-> the world afterwards, res |-> the return value,        *)
(* raised |-> whether DomainValidationError left the operation].           *)
(* request() is taken with the outcome o of its whole retry loop:          *)
(*   "ok"    a 2xx response with an empty or JSON body,                    *)
(*   "bad"   a 2xx response whose body is not JSON (the remote applied the *)
(*           request, request() returns None),                             *)
(*   "fail"  timeout / connection error / non-2xx after the retries.       *)
(***************************************************************************)
Outcomes == {"ok", "bad", "fail"}

\* a read has a JSON body whenever it has a 2xx status
ReadOutcomes == {"ok", "fail"}

\* mutant: DELETE sent to the list itself, removing every entry
request_delete_all(w, method, list, id, o) ==
    LET applied == o \in {"ok", "bad"}
        after(members) == IF ~applied THEN members
                          ELSE IF method = "POST" THEN members \cup {id}
                          ELSE IF method = "DELETE" THEN {}
                          ELSE members
    IN [w |-> [w EXCEPT !.deny = IF list = "denylist" THEN after(@) ELSE @,
                        !.allow = IF list = "allowlist" THEN after(@) ELSE @,
                        !.log = Append(@, [method |-> method, list |-> list, id |-> id,
                                           outcome |-> o, item |-> w.item])],
        res |-> IF o = "ok" THEN "json" ELSE None]

request(w, method, list, id, o) ==
    LET applied == o \in {"ok", "bad"}
        after(members) == IF ~applied THEN members
                          ELSE IF method = "POST" THEN members \cup {id}
                          ELSE IF method = "DELETE" THEN members \ {id}
                          ELSE members
    IN [w |-> [w EXCEPT !.deny = IF list = "denylist" THEN after(@) ELSE @,
                        !.allow = IF list = "allowlist" THEN after(@) ELSE @,
                        !.log = Append(@, [method |-> method, list |-> list, id |-> id,
                                           outcome |-> o, item |-> w.item])],
        res |-> IF o = "ok" THEN "json" ELSE None]

\* mutant: the list is fetched whatever the cache holds
get_denylist_uncached(w, use_cache, o) ==
    LET r == request(w, "GET", "denylist", None, o)
    IN IF r.res = None THEN [w |-> r.w, res |-> <<>>]
       ELSE [w |-> [r.w EXCEPT !.cache = cache_set(@, r.w.deny, r.w.clock)],
             res |-> <<r.w.deny>>]

get_denylist(w, use_cache, o) ==
    IF use_cache /\ cache_get(w.cache, w.clock) # <<>>
    THEN [w |-> w, res |-> cache_get(w.cache, w.clock)]
    ELSE LET r == request(w, "GET", "denylist", None, o)
         IN IF r.res = None THEN [w |-> r.w, res |-> <<>>]
            ELSE [w |-> [r.w EXCEPT !.cache = cache_set(@, r.w.deny, r.w.clock)],
                  res |-> <<r.w.deny>>]

find_domain(w, domain, use_cache, o) ==
    IF use_cache /\ contains(w.cache, domain, w.clock) # None
    THEN [w |-> w,
          res |-> IF contains(w.cache, domain, w.clock) = "True" THEN domain ELSE None]
    ELSE LET g == get_denylist(w, use_cache, o)
         IN IF g.res = <<>> THEN [w |-> g.w, res |-> None]
            ELSE [w |-> g.w, res |-> IF domain \in g.res[1] THEN domain ELSE None]

\* mutant: the membership test inverted (`is None` for `is not None`)
is_blocked_inverted(w, domain, o) ==
    LET f == find_domain(w, domain, TRUE, o)
    IN [w |-> f.w, res |-> f.res = None]

is_blocked(w, domain, o) ==
    LET f == find_domain(w, domain, TRUE, o)
    IN [w |-> f.w, res |-> f.res # None]

\* mutant: the membership check before the write is missing
block_without_check(w, domain, o1, o2) ==
    IF ~validate_domain(domain)
    THEN [w |-> w, res |-> FALSE, raised |-> TRUE]
    ELSE LET r == request(w, "POST", "denylist", domain, o2)
         IN IF r.res # None
            THEN [w |-> [r.w EXCEPT !.cache = add_domain(@, domain)],
                  res |-> TRUE, raised |-> FALSE]
            ELSE [w |-> r.w, res |-> FALSE, raised |-> FALSE]

block(w, domain, o1, o2) ==
    IF ~validate_domain(domain)
    THEN [w |-> w, res |-> FALSE, raised |-> TRUE]
    ELSE LET f == find_domain(w, domain, TRUE, o1)
         IN IF f.res # None THEN [w |-> f.w, res |-> TRUE, raised |-> FALSE]
            ELSE LET r == request(f.w, "POST", "denylist", domain, o2)
                 IN IF r.res # None
                    THEN [w |-> [r.w EXCEPT !.cache = add_domain(@, domain)],
                          res |-> TRUE, raised |-> FALSE]
                    ELSE [w |-> r.w, res |-> FALSE, raised |-> FALSE]

\* mutant: the early return of block() copied into unblock()
unblock_guard_of_block(w, domain, o1, o2) ==
    IF ~validate_domain(domain)
    THEN [w |-> w, res |-> FALSE, raised |-> TRUE]
    ELSE LET f == find_domain(w, domain, TRUE, o1)
         IN IF f.res # None THEN [w |-> f.w, res |-> TRUE, raised |-> FALSE]
            ELSE LET r == request(f.w, "DELETE", "denylist", domain, o2)
                 IN IF r.res # None
                    THEN [w |-> [r.w EXCEPT !.cache = remove_domain(@, domain)],
                          res |-> TRUE, raised |-> FALSE]
                    ELSE [w |-> r.w, res |-> FALSE, raised |-> FALSE]

unblock(w, domain, o1, o2) ==
    IF ~validate_domain(domain)
    THEN [w |-> w, res |-> FALSE, raised |-> TRUE]
    ELSE LET f == find_domain(w, domain, TRUE, o1)
         IN IF f.res = None THEN [w |-> f.w, res |-> TRUE, raised |-> FALSE]
            ELSE LET r == request(f.w, "DELETE", "denylist", domain, o2)
                 IN IF r.res # None
                    THEN [w |-> [r.w EXCEPT !.cache = remove_domain(@, domain)],
                          res |-> TRUE, raised |-> FALSE]
                    ELSE [w |-> r.w, res |-> FALSE, raised |-> FALSE]

refresh_cache(w, o) ==
    LET g == get_denylist([w EXCEPT !.cache = invalidate(@)], FALSE, o)
    IN [w |-> g.w, res |-> g.res # <<>>]

\* mutant: a failed fetch drops what the cache held
get_allowlist_dropping(w, use_cache, o) ==
    IF use_cache /\ cache_get(w.acache, w.clock) # <<>>
    THEN [w |-> w, res |-> cache_get(w.acache, w.clock)]
    ELSE LET r == request(w, "GET", "allowlist", None, o)
         IN IF r.res = None
            THEN [w |-> [r.w EXCEPT !.acache = invalidate(@)], res |-> <<>>]
            ELSE [w |-> [r.w EXCEPT !.acache = cache_set(@, r.w.allow, r.w.clock)],
                  res |-> <<r.w.allow>>]

get_allowlist(w, use_cache, o) ==
    IF use_cache /\ cache_get(w.acache, w.clock) # <<>>
    THEN [w |-> w, res |-> cache_get(w.acache, w.clock)]
    ELSE LET r == request(w, "GET", "allowlist", None, o)
         IN IF r.res = None THEN [w |-> r.w, res |-> <<>>]
            ELSE [w |-> [r.w EXCEPT !.acache = cache_set(@, r.w.allow, r.w.clock)],
                  res |-> <<r.w.allow>>]

find_in_allowlist(w, domain, use_cache, o) ==
    IF use_cache /\ contains(w.acache, domain, w.clock) # None
    THEN [w |-> w,
          res |-> IF contains(w.acache, domain, w.clock) = "True" THEN domain ELSE None]
    ELSE LET g == get_allowlist(w, use_cache, o)
         IN IF g.res = <<>> THEN [w |-> g.w, res |-> None]
            ELSE [w |-> g.w, res |-> IF domain \in g.res[1] THEN domain ELSE None]

is_allowed(w, domain, o) ==
    LET f == find_in_allowlist(w, domain, TRUE, o)
    IN [w |-> f.w, res |-> f.res # None]

\* mutant: the early return of disallow() copied into allow()
allow_guard_of_disallow(w, domain, o1, o2) ==
    IF ~validate_domain(domain)
    THEN [w |-> w, res |-> FALSE, raised |-> TRUE]
    ELSE LET f == find_in_allowlist(w, domain, TRUE, o1)
         IN IF f.res = None THEN [w |-> f.w, res |-> TRUE, raised |-> FALSE]
            ELSE LET r == request(f.w, "POST", "allowlist", domain, o2)
                 IN IF r.res # None
                    THEN [w |-> [r.w EXCEPT !.acache = add_domain(@, domain)],
                          res |-> TRUE, raised |-> FALSE]
                    ELSE [w |-> r.w, res |-> FALSE, raised |-> FALSE]

allow(w, domain, o1, o2) ==
    IF ~validate_domain(domain)
    THEN [w |-> w, res |-> FALSE, raised |-> TRUE]
    ELSE LET f == find_in_allowlist(w, domain, TRUE, o1)
         IN IF f.res # None THEN [w |-> f.w, res |-> TRUE, raised |-> FALSE]
            ELSE LET r == request(f.w, "POST", "allowlist", domain, o2)
                 IN IF r.res # None
                    THEN [w |-> [r.w EXCEPT !.acache = add_domain(@, domain)],
                          res |-> TRUE, raised |-> FALSE]
                    ELSE [w |-> r.w, res |-> FALSE, raised |-> FALSE]

disallow(w, domain, o1, o2) ==
    IF ~validate_domain(domain)
    THEN [w |-> w, res |-> FALSE, raised |-> TRUE]
    ELSE LET f == find_in_allowlist(w, domain, TRUE, o1)
         IN IF f.res = None THEN [w |-> f.w, res |-> TRUE, raised |-> FALSE]
            ELSE LET r == request(f.w, "DELETE", "allowlist", domain, o2)
                 IN IF r.res # None
                    THEN [w |-> [r.w EXCEPT !.acache = remove_domain(@, domain)],
                          res |-> TRUE, raised |-> FALSE]
                    ELSE [w |-> r.w, res |-> FALSE, raised |-> FALSE]

refresh_allowlist_cache(w, o) ==
    LET g == get_allowlist([w EXCEPT !.acache = invalidate(@)], FALSE, o)
    IN [w |-> g.w, res |-> g.res # <<>>]

(***************************************************************************)
(* Configuration (config.py: load_domains, get_protected_domains).         *)
(* load_domains rejects an empty domain list and a name that is in both    *)
(* lists; names are syntactically valid lower-case domain strings.         *)
(***************************************************************************)
RangeOf(seq) == {seq[k] : k \in 1..Len(seq)}

get_protected_domains(domains) ==
    LET IsProtected(rule) == rule.protected
        sel == SelectSeq(domains, IsProtected)
    IN [k \in 1..Len(sel) |-> sel[k].domain]

ConfigNames == {config.domains[k].domain : k \in 1..Len(config.domains)}

ProtectedNames == RangeOf(get_protected_domains(config.domains))

RuleOf(d) == CHOOSE rule \in RangeOf(config.domains) : rule.domain = d

(***************************************************************************)
(* Position of a running command.                                          *)
(*   pc = [cmd, phase, i, dry_run, after, deny0, allow0]                   *)
(* cmd is "idle", "sync" (cli.py) or "cmd_sync" (nextdns_blocker.py);      *)
(* phase names the loop being executed and i the index of its next item;   *)
(* phase "done" means all loops are finished and the summary is pending;   *)
(* a phase that is the name of an exception means that this exception has  *)
(* left the loops and ends the command.                                    *)
(* after is the summary of what ran immediately before this pass started:  *)
(* [cmd, faults, acted] of a finished non-dry-run pass (failed requests,   *)
(* whether it emitted actions), cmd "killed" after a killed pass, NoPrev    *)
(* otherwise.  deny0 / allow0 are the remote lists when the pass started.  *)
(***************************************************************************)
NoPrev == [cmd |-> "none", faults |-> 0, acted |-> FALSE]

Idle == [cmd |-> "idle", phase |-> "idle", i |-> 0, dry_run |-> FALSE, after |-> NoPrev,
         deny0 |-> {}, allow0 |-> {}]

\* the loops of each command, in program order
Phases(cmd) ==
    IF cmd = "sync" THEN <<"denylist", "allowlist">>
    ELSE <<"allowlist", "protected", "scheduled">>

PhaseLen(cmd, phase) ==
    IF phase = "allowlist" THEN Len(config.allowlist)
    ELSE IF phase = "protected" THEN Len(get_protected_domains(config.domains))
    ELSE Len(config.domains)

RECURSIVE seek(_, _)
\* first item of the k-th loop of cmd, skipping empty loops
seek(cmd, k) ==
    IF k > Len(Phases(cmd)) THEN [phase |-> "done", i |-> 0]
    ELSE IF PhaseLen(cmd, Phases(cmd)[k]) = 0 THEN seek(cmd, k + 1)
    ELSE [phase |-> Phases(cmd)[k], i |-> 1]

PhaseIndex(cmd, phase) == CHOOSE k \in 1..Len(Phases(cmd)) : Phases(cmd)[k] = phase

\* mutant: a failed client call ends the pass
next_pos_abort_on_failure(cmd, phase, i, ok) ==
    IF ~ok THEN [phase |-> "done", i |-> 0]
    ELSE IF i < PhaseLen(cmd, phase) THEN [phase |-> phase, i |-> i + 1]
    ELSE seek(cmd, PhaseIndex(cmd, phase) + 1)

\* the position after item i of the loop `phase`; `ok` is the result of the
\* client call made for the item (a failed call does not leave the loop)
next_pos(cmd, phase, i, ok) ==
    IF i < PhaseLen(cmd, phase) THEN [phase |-> phase, i |-> i + 1]
    ELSE seek(cmd, PhaseIndex(cmd, phase) + 1)

(***************************************************************************)
(* The world a client operation acts on, and its write-back.               *)
(***************************************************************************)
NewClient == [cache |-> NewCache, acache |-> NewCache, clock |-> 0]

World(item, lg) ==
    [deny |-> denylist, allow |-> allowlist, cache |-> client.cache,
     acache |-> client.acache, clock |-> client.clock, log |-> lg, item |-> item]

IsFault(entry) == entry.outcome # "ok"

NumFaults(lg) == Cardinality({k \in 1..Len(lg) : IsFault(lg[k])})

Commit(w) ==
    /\ NumFaults(w.log) <= MaxFaults
    /\ denylist' = w.deny
    /\ allowlist' = w.allow
    /\ client' = [cache |-> w.cache, acache |-> w.acache, clock |-> w.clock]
    /\ log' = w.log

SyncAction(domain, kind, applied) == [domain |-> domain, kind |-> kind, applied |-> applied]

(***************************************************************************)
(* One loop iteration of a pass: decide, then emit / apply.                *)
(***************************************************************************)
\* mutant: the protected check of the unblock branch is missing
sync_decide_unprotected(desired, actual, is_protected) ==
    IF desired /\ ~actual THEN "Block"
    ELSE IF ~desired /\ actual THEN "Unblock"
    ELSE "None"

\* cli.py sync, lines 332-357: the branch taken for one configured domain
sync_decide(desired, actual, is_protected) ==
    IF desired /\ ~actual THEN "Block"
    ELSE IF ~desired /\ actual
         THEN IF is_protected THEN "None" ELSE "Unblock"
         ELSE "None"

\* mutant: the unblock branch is missing
cmd_sync_decide_no_unblock(desired, actual) ==
    IF desired /\ ~actual THEN "Block" ELSE "None"

\* nextdns_blocker.py cmd_sync, lines 1548-1575: the same table for a
\* non-protected domain (protected ones never reach it, line 1542)
cmd_sync_decide(desired, actual) ==
    IF desired /\ ~actual THEN "Block"
    ELSE IF ~desired /\ actual THEN "Unblock"
    ELSE "None"

\* mutant: the dry_run flag is ignored
perform_ignoring_dry_run(w, kind, domain, dry_run, o1, o2) ==
    IF kind = "None" THEN [w |-> w, res |-> TRUE, acts |-> <<>>, raised |-> FALSE]
    ELSE LET c == IF kind = "Block" THEN block(w, domain, o1, o2)
                  ELSE IF kind = "Unblock" THEN unblock(w, domain, o1, o2)
                  ELSE allow(w, domain, o1, o2)
         IN [w |-> c.w, res |-> c.res, raised |-> c.raised,
             acts |-> IF c.raised THEN <<>> ELSE <<SyncAction(domain, kind, c.res)>>]

\* the body of a branch: print in dry-run mode, call the client otherwise.
\* Returns [w, res, acts, raised]: the world, the client's result, the emitted
\* actions, and whether the client raised DomainValidationError instead of
\* returning.
perform(w, kind, domain, dry_run, o1, o2) ==
    IF kind = "None" THEN [w |-> w, res |-> TRUE, acts |-> <<>>, raised |-> FALSE]
    ELSE IF dry_run
    THEN [w |-> w, res |-> TRUE, acts |-> <<SyncAction(domain, kind, FALSE)>>,
          raised |-> FALSE]
    ELSE LET c == IF kind = "Block" THEN block(w, domain, o1, o2)
                  ELSE IF kind = "Unblock" THEN unblock(w, domain, o1, o2)
                  ELSE allow(w, domain, o1, o2)
         IN [w |-> c.w, res |-> c.res, raised |-> c.raised,
             acts |-> IF c.raised THEN <<>> ELSE <<SyncAction(domain, kind, c.res)>>]

\* the exceptions that can leave a loop of a pass
Exceptions == {"DomainValidationError", "ValueError", "KeyError", "AttributeError"}

\* whether the loop body of cmd has `except DomainValidationError` around its
\* client call: nextdns_blocker.py 1502, 1530, 1576; cli.py sync has only
\* `except ConfigurationError` around the whole pass (line 377)
catches(cmd) ==
    cmd = "cmd_sync"

\* common tail of every iteration; an exception that is not caught leaves the
\* loops, and the position becomes the name of the exception
Iterate(p, domain) ==
    /\ Commit(p.w)
    /\ actions' = actions \o p.acts
    /\ evaluated' = evaluated \cup {domain}
    /\ LET n == next_pos(pc.cmd, pc.phase, pc.i, p.res)
       IN pc' = IF p.raised /\ ~catches(pc.cmd)
                THEN [pc EXCEPT !.phase = "DomainValidationError", !.i = 0]
                ELSE [pc EXCEPT !.phase = n.phase, !.i = n.i]
    /\ UNCHANGED <<config, now, paused, result, prev, passes, sched, verdict, call, limiter, http>>

\* the schedule evaluation of an item raised exc: neither pass catches it
Propagate(exc, domain) ==
    /\ pc' = [pc EXCEPT !.phase = exc, !.i = 0]
    /\ evaluated' = evaluated \cup {domain}
    /\ UNCHANGED <<config, now, denylist, allowlist, paused, client, log, actions,
                   result, prev, passes, sched, verdict, call, limiter, http>>

\* cli.py sync, lines 327-357
sync_denylist ==
    /\ pc.cmd = "sync" /\ pc.phase = "denylist"
    /\ LET rule == config.domains[pc.i]
       IN IF should_block_error(rule.schedule, now) # "none"
          THEN Propagate(should_block_error(rule.schedule, now), rule.domain)
          ELSE \E o0, o1 \in ReadOutcomes, o2 \in Outcomes :
               \E ib \in {is_blocked(World(rule.domain, log), rule.domain, o0)} :
                  LET desired == should_block(rule.schedule, now)
                      kind == sync_decide(desired, ib.res,
                                          rule.domain \in ProtectedNames)
                  IN \E p \in {perform(ib.w, kind, rule.domain, pc.dry_run, o1, o2)} :
                        Iterate(p, rule.domain)

\* cli.py sync, lines 360-367
sync_allowlist ==
    /\ pc.cmd = "sync" /\ pc.phase = "allowlist"
    /\ \E o0, o1 \in ReadOutcomes, o2 \in Outcomes :
       \E ia \in {is_allowed(World(config.allowlist[pc.i], log),
                              config.allowlist[pc.i], o0)} :
          LET domain == config.allowlist[pc.i]
              kind == IF ~ia.res THEN "Allow" ELSE "None"
          IN \E p \in {perform(ia.w, kind, domain, pc.dry_run, o1, o2)} :
                Iterate(p, domain)

\* nextdns_blocker.py cmd_sync, lines 1487-1507
cmd_sync_allowlist ==
    /\ pc.cmd = "cmd_sync" /\ pc.phase = "allowlist"
    /\ \E o0, o1 \in ReadOutcomes, o2 \in Outcomes :
       \E f \in {find_in_allowlist(World(config.allowlist[pc.i], log),
                                    config.allowlist[pc.i], TRUE, o0)} :
          LET domain == config.allowlist[pc.i]
              kind == IF f.res = None THEN "Allow" ELSE "None"
          IN \E p \in {perform(f.w, kind, domain, pc.dry_run, o1, o2)} :
                Iterate(p, domain)

\* nextdns_blocker.py cmd_sync, lines 1517-1535
cmd_sync_protected ==
    /\ pc.cmd = "cmd_sync" /\ pc.phase = "protected"
    /\ \E o0, o1 \in ReadOutcomes, o2 \in Outcomes :
       \E domain \in {get_protected_domains(config.domains)[pc.i]} :
       \E f \in {find_domain(World(domain, log), domain, TRUE, o0)} :
          LET kind == IF f.res = None THEN "Block" ELSE "None"
          IN \E p \in {perform(f.w, kind, domain, pc.dry_run, o1, o2)} :
                Iterate(p, domain)

\* nextdns_blocker.py cmd_sync, lines 1538-1577
cmd_sync_scheduled ==
    /\ pc.cmd = "cmd_sync" /\ pc.phase = "scheduled"
    /\ LET rule == config.domains[pc.i]
       IN IF rule.domain \in ProtectedNames
          THEN Iterate([w |-> World(rule.domain, log), res |-> TRUE, acts |-> <<>>,
                        raised |-> FALSE], rule.domain)
          ELSE IF mono_should_block_error(rule.schedule, now) # "none"
          THEN Propagate(mono_should_block_error(rule.schedule, now), rule.domain)
          ELSE \E o0, o1 \in ReadOutcomes, o2 \in Outcomes :
               \E f \in {find_domain(World(rule.domain, log), rule.domain, TRUE, o0)} :
                  LET desired == mono_should_block(rule.schedule, now)
                      kind == cmd_sync_decide(desired, f.res # None)
                  IN \E p \in {perform(f.w, kind, rule.domain, pc.dry_run, o1, o2)} :
                        Iterate(p, rule.domain)

(***************************************************************************)
(* Start and end of a pass.                                                *)
(***************************************************************************)
Report(cmd, status, code) == [cmd |-> cmd, status |-> status, exit_code |-> code]

Begin(cmd, dry_run) ==
    LET first == seek(cmd, 1)
    IN /\ pc' = [cmd |-> cmd, phase |-> first.phase, i |-> first.i,
                 dry_run |-> dry_run, after |-> prev,
                 deny0 |-> denylist, allow0 |-> allowlist]
       /\ client' = NewClient
       /\ log' = <<>>
       /\ actions' = <<>>
       /\ evaluated' = {}
       /\ result' = Report(cmd, "running", 0)
       /\ passes' = passes + 1
       /\ UNCHANGED <<config, now, denylist, allowlist, paused, prev, sched, verdict, call, limiter, http>>

Skip(cmd) ==
    /\ result' = Report(cmd, "paused", 0)
    /\ prev' = NoPrev
    /\ passes' = passes + 1
    /\ UNCHANGED <<config, now, denylist, allowlist, paused, pc, client, log,
                   actions, evaluated, sched, verdict, call, limiter, http>>

\* cli.py sync, lines 296-325: the pause check applies to dry runs too
sync_start ==
    /\ pc.cmd = "idle" /\ passes < MaxPasses
    /\ \E dry_run \in BOOLEAN :
          IF paused THEN Skip("sync") ELSE Begin("sync", dry_run)

\* nextdns_blocker.py cmd_sync, lines 1455-1480: a dry run ignores the pause
cmd_sync_start ==
    /\ pc.cmd = "idle" /\ passes < MaxPasses
    /\ \E dry_run \in BOOLEAN :
          IF ~dry_run /\ paused THEN Skip("cmd_sync") ELSE Begin("cmd_sync", dry_run)

\* the exit status a finished pass reports: cli.py sync returns normally
\* (lines 369-376), cmd_sync ends in `return 0` (line 1601)
exit_code(cmd, lg) == 0

\* end of both passes: summary and exit status, or the traceback and the
\* exit status 1 of an exception that nothing caught
sync_return ==
    /\ pc.cmd \in {"sync", "cmd_sync"} /\ pc.phase \in {"done"} \cup Exceptions
    /\ result' = IF pc.phase = "done"
                 THEN Report(pc.cmd, "done", exit_code(pc.cmd, log))
                 ELSE Report(pc.cmd, pc.phase, 1)
    /\ prev' = IF pc.dry_run THEN NoPrev
                ELSE [cmd |-> pc.cmd, faults |-> NumFaults(log),
                      acted |-> actions # <<>>]
    /\ pc' = Idle
    /\ client' = NewClient
    /\ log' = <<>>
    /\ actions' = <<>>
    /\ evaluated' = {}
    /\ UNCHANGED <<config, now, denylist, allowlist, paused, passes, sched, verdict, call, limiter, http>>

\* the operating system kills the process in the middle of a pass:
\* writes already applied stay applied, the in-memory client is lost
Kill ==
    /\ pc.cmd \in {"sync", "cmd_sync"} /\ pc.phase \notin {"done"} \cup Exceptions
    /\ pc' = Idle
    /\ result' = Report(pc.cmd, "killed", 137)
    /\ prev' = [cmd |-> "killed", faults |-> 0, acted |-> actions # <<>>]
    /\ client' = NewClient
    /\ log' = <<>>
    /\ actions' = <<>>
    /\ evaluated' = {}
    /\ UNCHANGED <<config, now, denylist, allowlist, paused, passes, sched, verdict, call, limiter, http>>

\* time passes inside the running process (rate-limit sleeps, backoff, I/O)
Tick ==
    /\ pc.cmd \in {"sync", "cmd_sync"} /\ pc.phase \notin {"done"} \cup Exceptions
    /\ client.clock < MaxTicks * ClockStep
    /\ client' = [client EXCEPT !.clock = @ + ClockStep]
    /\ UNCHANGED <<config, now, denylist, allowlist, paused, pc, log, actions,
                   evaluated, result, prev, passes, sched, verdict, call, limiter, http>>

(***************************************************************************)
(* Manual unblock command.                                                 *)
(***************************************************************************)
\* the guard of both unblock commands: a protected domain is refused
refuses(domain, protected) == domain \in RangeOf(protected)

\* str.strip() of a name
stripped(name) ==
    IF strip(chars(name)) = chars(name) THEN name ELSE join(strip(chars(name)))

\* cmd_unblock starts with target = target.lower().strip() (line 1407); both
\* commands validate the name, then look it up in the protected list
ManualUnblock(cmd, domain, o1, o2) ==
    LET target == IF cmd = "cmd_unblock" THEN stripped(domain) ELSE domain
    IN IF ~validate_domain(target)
       THEN /\ result' = Report(cmd, "invalid", 1)
            /\ log' = <<>>
            /\ client' = NewClient
            /\ UNCHANGED <<denylist, allowlist>>
       ELSE IF refuses(target, get_protected_domains(config.domains))
       THEN /\ result' = Report(cmd, "refused", 1)
            /\ log' = <<>>
            /\ client' = NewClient
            /\ UNCHANGED <<denylist, allowlist>>
       ELSE LET w0 == [deny |-> denylist, allow |-> allowlist, cache |-> NewCache,
                       acache |-> NewCache, clock |-> 0, log |-> <<>>,
                       item |-> target]
            IN \E u \in {unblock(w0, target, o1, o2)} :
                  /\ Commit(u.w)
                  /\ result' = Report(cmd, "done", IF u.res THEN 0 ELSE 1)

\* cli.py unblock, lines 241-273
cli_unblock ==
    /\ pc.cmd = "idle" /\ passes < MaxPasses
    /\ \E domain \in ConfigNames, o1 \in ReadOutcomes, o2 \in Outcomes :
          ManualUnblock("unblock", domain, o1, o2)
    /\ actions' = <<>> /\ evaluated' = {} /\ prev' = NoPrev
    /\ passes' = passes + 1
    /\ UNCHANGED <<config, now, paused, pc, sched, verdict, call, limiter, http>>

\* nextdns_blocker.py cmd_unblock, lines 1391-1428
cmd_unblock ==
    /\ pc.cmd = "idle" /\ passes < MaxPasses
    /\ \E domain \in ConfigNames, o1 \in ReadOutcomes, o2 \in Outcomes :
          ManualUnblock("cmd_unblock", domain, o1, o2)
    /\ actions' = <<>> /\ evaluated' = {} /\ prev' = NoPrev
    /\ passes' = passes + 1
    /\ UNCHANGED <<config, now, paused, pc, sched, verdict, call, limiter, http>>

(***************************************************************************)
(* Pause flag (cli.py set_pause / clear_pause / is_paused expiry) and the  *)
(* wall clock between commands.                                            *)
(***************************************************************************)
set_pause ==
    /\ pc.cmd = "idle" /\ ~paused
    /\ paused' = TRUE
    /\ UNCHANGED <<config, now, denylist, allowlist, pc, client, log, actions,
                   evaluated, result, prev, passes, sched, verdict, call, limiter, http>>

\* manual resume, or the pause running out
clear_pause ==
    /\ pc.cmd = "idle" /\ paused
    /\ paused' = FALSE
    /\ UNCHANGED <<config, now, denylist, allowlist, pc, client, log, actions,
                   evaluated, result, prev, passes, sched, verdict, call, limiter, http>>

(***************************************************************************)
(* Values of the variables of the other specifications while they are not  *)
(* in use.                                                                 *)
(***************************************************************************)
NoCall == [op |-> "none"]

NoLimiter == [max_requests |-> 0]

NoRequest == [state |-> "none"]

(***************************************************************************)
(* Inputs of the reconciler model.                                         *)
(***************************************************************************)
At(day, h, m, sec) == [day |-> day, time |-> h * 3600 + m * 60 + sec]

TimeRange(start, end) == [start |-> start, end |-> end]

NoSchedule == [shape |-> "None", available_hours |-> <<>>]

\* {"available_hours":[{"days":["monday"],"time_ranges":[{"start":"09:00","end":"17:00"}]}]}
WorkHours ==
    [shape |-> "hours",
     available_hours |-> <<[days |-> {"monday"},
                            time_ranges |-> <<TimeRange(<<9, 0>>, <<17, 0>>)>>]>>]

Overnight ==
    [shape |-> "hours",
     available_hours |-> <<[days |-> {"friday"},
                            time_ranges |-> <<TimeRange(<<22, 0>>, <<2, 0>>)>>]>>]

SyncSchedules == {NoSchedule, WorkHours, Overnight}

\* Monday 10:00 and Saturday 01:00; the instant is fixed for a behaviour
SyncInstants == {At(0, 10, 0, 0), At(5, 1, 0, 0)}

Rule(domain, schedule, protected) ==
    [domain |-> domain, schedule |-> schedule, protected |-> protected]

Rules(domain) == {Rule(domain, s, p) : s \in SyncSchedules, p \in BOOLEAN}

Configs ==
    {[domains |-> <<r1, r2>>, allowlist |-> al] :
        r1 \in Rules("work.example.com"),
        r2 \in {Rule("games.example.com", NoSchedule, FALSE)},
        al \in {<<>>, <<"docs.example.com">>}}

\* remote entries may also be names the configuration does not mention
RemoteDeny == SUBSET {"work.example.com", "games.example.com", "other.example.com"}

RemoteAllow == SUBSET {"docs.example.com"}

NoVerdict ==
    [done |-> FALSE, at |-> At(0, 0, 0, 0), pkg |-> TRUE, mono |-> TRUE,
     pkg_error |-> "none", mono_error |-> "none"]

Init ==
    /\ config \in Configs
    /\ now \in SyncInstants
    /\ denylist \in RemoteDeny
    /\ allowlist \in RemoteAllow
    /\ paused = FALSE
    /\ pc = Idle
    /\ client = NewClient
    /\ log = <<>>
    /\ actions = <<>>
    /\ evaluated = {}
    /\ result = Report("none", "none", 0)
    /\ prev = NoPrev
    /\ passes = 0
    /\ sched = NoSchedule
    /\ verdict = NoVerdict
    /\ call = NoCall
    /\ limiter = NoLimiter
    /\ http = NoRequest

Next ==
    \/ sync_start
    \/ sync_denylist
    \/ sync_allowlist
    \/ cmd_sync_start
    \/ cmd_sync_allowlist
    \/ cmd_sync_protected
    \/ cmd_sync_scheduled
    \/ sync_return
    \/ Kill
    \/ Tick
    \/ cli_unblock
    \/ cmd_unblock
    \/ set_pause
    \/ clear_pause

Spec == Init /\ [][Next]_vars

(***************************************************************************)
(* SpecDefect: the same commands run on a configuration that load_domains  *)
(* accepts although one entry is defective: a name with a leading or       *)
(* trailing blank (validated after strip(), kept as written), or a         *)
(* schedule with an entry of `days` that is not a string (only strings are *)
(* checked).                                                               *)
(***************************************************************************)
\* common.py 88-100: TIME_PATTERN, HH:MM with HH up to 23 and MM up to 59
validate_time_format(time_str) ==
    Len(time_str) = 2 /\ time_str[1] \in 0..23 /\ time_str[2] \in 0..59

\* config.py 320-379
validate_domain_config(rule) ==
    /\ strip(chars(rule.domain)) # <<>>
    /\ validate_domain(stripped(rule.domain))
    /\ \A b \in 1..Len(rule.schedule.available_hours) :
          LET entry == rule.schedule.available_hours[b]
          IN /\ \A day \in entry.days :
                   day # NotAString => \E k \in 1..7 : DAYS_MAP[k] = day
             /\ \A r \in 1..Len(entry.time_ranges) :
                   /\ entry.time_ranges[r].start # <<>>
                   /\ validate_time_format(entry.time_ranges[r].start)
                   /\ entry.time_ranges[r].end # <<>>
                   /\ validate_time_format(entry.time_ranges[r].end)

\* config.py 388-417
validate_allowlist_config(name) ==
    /\ strip(chars(name)) # <<>>
    /\ validate_domain(stripped(name))

\* config.py 422-457
validate_no_overlap(domains, names) ==
    {stripped(domains[k].domain) : k \in 1..Len(domains)}
        \cap {stripped(names[k]) : k \in 1..Len(names)} = {}

\* config.py 464-526: the configuration is loaded without an error
load_domains(c) ==
    /\ c.domains # <<>>
    /\ \A k \in 1..Len(c.domains) : validate_domain_config(c.domains[k])
    /\ \A k \in 1..Len(c.allowlist) : validate_allowlist_config(c.allowlist[k])
    /\ validate_no_overlap(c.domains, c.allowlist)

\* {"days": ["monday", 1], "time_ranges": [{"start": "09:00", "end": "17:00"}]}
DayNotAString ==
    [shape |-> "hours",
     available_hours |-> <<[days |-> {"monday", NotAString},
                            time_ranges |-> <<TimeRange(<<9, 0>>, <<17, 0>>)>>]>>]

\* {"days": ["monday"], "time_ranges": [{"start": "24:00", "end": "17:00"}]}
HourOutOfRange ==
    [shape |-> "hours",
     available_hours |-> <<[days |-> {"monday"},
                            time_ranges |-> <<TimeRange(<<24, 0>>, <<17, 0>>)>>]>>]

\* configurations as written by hand; load_domains rejects some of them
WrittenConfigs ==
    {[domains |-> <<r1, r2>>, allowlist |-> al] :
        r1 \in {Rule(" a", NoSchedule, FALSE), Rule(" a", NoSchedule, TRUE),
                Rule("a", DayNotAString, FALSE), Rule("a", HourOutOfRange, FALSE),
                Rule("a a", NoSchedule, FALSE), Rule("a", NoSchedule, FALSE)},
        r2 \in {Rule("a.a", NoSchedule, FALSE)},
        al \in {<<>>, <<"aa ">>, <<" a">>}}

DefectConfigs == {c \in WrittenConfigs : load_domains(c)}

InitDefect ==
    /\ config \in DefectConfigs
    /\ now = At(0, 10, 0, 0)
    /\ denylist \in SUBSET {"a.a"}
    /\ allowlist = {}
    /\ paused = FALSE
    /\ pc = Idle
    /\ client = NewClient
    /\ log = <<>>
    /\ actions = <<>>
    /\ evaluated = {}
    /\ result = Report("none", "none", 0)
    /\ prev = NoPrev
    /\ passes = 0
    /\ sched = NoSchedule
    /\ verdict = NoVerdict
    /\ call = NoCall
    /\ limiter = NoLimiter
    /\ http = NoRequest

SpecDefect == InitDefect /\ [][Next]_vars

(***************************************************************************)
(* SpecSched: both evaluators applied to bounded schedules and instants.   *)
(***************************************************************************)
MaxBlocks == 1      \* availability blocks in a schedule
MaxRanges == 1      \* time ranges in a block

SchedTimes == {<<2, 0>>, <<9, 0>>, <<17, 0>>, <<22, 0>>}

SchedDays == {"friday", "saturday"}

SeqsUpTo(S, n) == UNION {[1..k -> S] : k \in 0..n}

SchedRanges == {TimeRange(a, b) : a \in SchedTimes, b \in SchedTimes}

SchedBlocks ==
    {[days |-> ds, time_ranges |-> trs] :
        ds \in SUBSET SchedDays, trs \in SeqsUpTo(SchedRanges, MaxRanges)}

SchedInputs ==
    {[shape |-> "hours", available_hours |-> bs] : bs \in SeqsUpTo(SchedBlocks, MaxBlocks)}
    \cup {[shape |-> sh, available_hours |-> <<>>] : sh \in {"None", "{}", "no_hours"}}

\* Thursday .. Sunday, at and around the range bounds
EvalInstants ==
    {At(day, hm[1], hm[2], sec) :
        day \in 3..6,
        hm \in {<<0, 0>>, <<1, 0>>, <<1, 59>>, <<2, 0>>, <<8, 59>>, <<9, 0>>, <<12, 0>>,
                <<17, 0>>, <<17, 1>>, <<22, 0>>, <<23, 0>>, <<23, 59>>},
        sec \in {0, 30}}

InitSched ==
    /\ sched \in SchedInputs
    /\ verdict = NoVerdict
    /\ config = [domains |-> <<>>, allowlist |-> <<>>]
    /\ now = At(0, 0, 0, 0)
    /\ denylist = {}
    /\ allowlist = {}
    /\ paused = FALSE
    /\ pc = Idle
    /\ client = NewClient
    /\ log = <<>>
    /\ actions = <<>>
    /\ evaluated = {}
    /\ result = Report("none", "none", 0)
    /\ prev = NoPrev
    /\ passes = 0
    /\ call = NoCall
    /\ limiter = NoLimiter
    /\ http = NoRequest

\* ScheduleEvaluator.should_block of both implementations at instant `at`;
\* the evaluators keep no state, so one evaluation per behaviour reaches every
\* case.  verdict.pkg and verdict.mono are the values returned, meaningful when
\* the evaluation raised nothing; pkg_error and mono_error are what it raised
Evaluated(instants) ==
    /\ ~verdict.done
    /\ \E at \in instants :
          verdict' = [done |-> TRUE, at |-> at,
                      pkg |-> /\ should_block_error(sched, at) = "none"
                              /\ should_block(sched, at),
                      mono |-> /\ mono_should_block_error(sched, at) = "none"
                               /\ mono_should_block(sched, at),
                      pkg_error |-> should_block_error(sched, at),
                      mono_error |-> mono_should_block_error(sched, at)]
    /\ UNCHANGED <<config, now, denylist, allowlist, paused, pc, client, log,
                   actions, evaluated, result, prev, passes, sched,
                   call, limiter, http>>

Evaluate == Evaluated(EvalInstants)

NextSched == Evaluate

SpecSched == InitSched /\ [][NextSched]_vars

(***************************************************************************)
(* SpecRequest: the retry loop of NextDNSClient.request (client.py         *)
(* 256-348), one loop iteration per step.                                  *)
(*   http = [state, method, retries, attempt, attempts, acquires, slept,   *)
(*           seen, events, result]                                         *)
(* state is "running", "returned" or "raised" (an exception left           *)
(* request()); attempt is the loop variable; attempts counts the HTTP      *)
(* requests sent and acquires the RateLimiter.acquire() calls; slept is    *)
(* the sequence of backoff delays slept; seen is what each attempt met;    *)
(* events is the order of the acquire() calls and of the requests sent;    *)
(* result is the value returned.                                           *)
(* What an attempt meets is [kind, status, body]: kind "Timeout" or        *)
(* "ConnectionError" (requests raised it), or "Response" with its status   *)
(* and its body ("empty", "json", or "garbage" for text that is not JSON). *)
(***************************************************************************)
MaxRetries == 3     \* largest `retries` a client is built with

BACKOFF_BASE == 1
BACKOFF_MAX == 30

RECURSIVE Pow2(_)
Pow2(n) == IF n = 0 THEN 1 ELSE 2 * Pow2(n - 1)

\* mutant: the delay is not capped
_calculate_backoff_uncapped(attempt) == BACKOFF_BASE * Pow2(attempt)

_calculate_backoff(attempt) ==
    LET delay == BACKOFF_BASE * Pow2(attempt)
    IN IF delay <= BACKOFF_MAX THEN delay ELSE BACKOFF_MAX

OkStatuses == {200}

ErrStatuses == {400, 404, 429, 500, 503}

Responses ==
    {[kind |-> k, status |-> 0, body |-> "none"] : k \in {"Timeout", "ConnectionError"}}
    \cup {[kind |-> "Response", status |-> st, body |-> b] :
            st \in OkStatuses, b \in {"empty", "json", "garbage"}}
    \cup {[kind |-> "Response", status |-> st, body |-> "json"] : st \in ErrStatuses}

\* Response.raise_for_status(): HTTPError for a 4xx or 5xx status
raise_for_status(status) == 400 <= status /\ status < 600

\* the truth value of e.response in `e.response.status_code if e.response else 0`:
\* bool() of a requests.Response is Response.ok, false for every 4xx / 5xx status
Response_bool(status) == ~raise_for_status(status)

\* what the body of the try block raises, "none" if it returns normally
Raised(resp) ==
    IF resp.kind # "Response" THEN resp.kind
    ELSE IF raise_for_status(resp.status) THEN "HTTPError"
    ELSE "none"

\* requests.exceptions: subclasses of RequestException
RequestExceptions == {"Timeout", "HTTPError", "ConnectionError"}

\* mutant: the catch-all `except RequestException` clause is missing
handler_without_catch_all(exc) ==
    IF exc = "Timeout" THEN "except Timeout"
    ELSE IF exc = "HTTPError" THEN "except HTTPError"
    ELSE "unhandled"

\* the except clause that handles exc: the first one, in program order, whose
\* class exc is an instance of
handler(exc) ==
    IF exc = "Timeout" THEN "except Timeout"
    ELSE IF exc = "HTTPError" THEN "except HTTPError"
    ELSE IF exc \in RequestExceptions THEN "except RequestException"
    ELSE "unhandled"

Return(h, value) == [h EXCEPT !.state = "returned", !.result = value]

\* sleep(backoff); continue
Continue(h) ==
    [h EXCEPT !.slept = Append(@, _calculate_backoff(h.attempt)), !.attempt = @ + 1]

\* lines 296-307: the response passed raise_for_status()
on_response(h, resp) ==
    IF resp.body = "empty" THEN Return(h, "success")
    ELSE IF resp.body = "json" THEN Return(h, "json")
    ELSE Return(h, None)

\* mutant: one retry fewer than `retries`
on_Timeout_one_short(h) ==
    IF h.attempt + 1 < h.retries THEN Continue(h) ELSE Return(h, None)

\* lines 309-321
on_Timeout(h) ==
    IF h.attempt < h.retries THEN Continue(h) ELSE Return(h, None)

\* mutant: every HTTP error status is retried
on_HTTPError_retry_all(h, resp) ==
    IF h.attempt < h.retries THEN Continue(h) ELSE Return(h, None)

\* lines 322-335
on_HTTPError(h, resp) ==
    LET status_code == IF Response_bool(resp.status) THEN resp.status ELSE 0
    IN IF (status_code = 429 \/ (500 <= status_code /\ status_code < 600))
          /\ h.attempt < h.retries
       THEN Continue(h)
       ELSE Return(h, None)

\* lines 336-346
on_RequestException(h) ==
    IF h.attempt < h.retries THEN Continue(h) ELSE Return(h, None)

\* mutant: the limiter is asked once per request() call, not once per attempt
rate_limiter_acquire_first_only(h) ==
    IF h.attempt = 0
    THEN [h EXCEPT !.acquires = @ + 1, !.events = Append(@, "acquire")]
    ELSE h

\* line 277: self._rate_limiter.acquire()
rate_limiter_acquire(h) ==
    [h EXCEPT !.acquires = @ + 1, !.events = Append(@, "acquire")]

\* lines 280-291: requests.get / post / delete sends the request
send(h, resp) ==
    [h EXCEPT !.attempts = @ + 1, !.events = Append(@, "send"),
              !.seen = Append(@, resp)]

\* one iteration of `for attempt in range(self.retries + 1)`
attempt_once(h, resp) ==
    LET h0 == rate_limiter_acquire(h)
        h1 == send(h0, resp)
        exc == Raised(resp)
        clause == handler(exc)
    IN IF h.method \notin {"GET", "POST", "DELETE"} THEN Return(h0, None)
       ELSE IF exc = "none" THEN on_response(h1, resp)
       ELSE IF clause = "except Timeout" THEN on_Timeout(h1)
       ELSE IF clause = "except HTTPError" THEN on_HTTPError(h1, resp)
       ELSE IF clause = "except RequestException" THEN on_RequestException(h1)
       ELSE [h1 EXCEPT !.state = "raised"]

\* the methods the client's operations call request() with
ClientMethods == {"GET", "POST", "DELETE"}

NewRequest(method, retries) ==
    [state |-> "running", method |-> method, retries |-> retries, attempt |-> 0,
     attempts |-> 0, acquires |-> 0, slept |-> <<>>, seen |-> <<>>,
     events |-> <<>>, result |-> None]

\* the variables of the reconciler and of the evaluators, not in use
AtRest ==
    /\ config = [domains |-> <<>>, allowlist |-> <<>>]
    /\ now = At(0, 0, 0, 0)
    /\ denylist = {}
    /\ allowlist = {}
    /\ paused = FALSE
    /\ pc = Idle
    /\ client = NewClient
    /\ log = <<>>
    /\ actions = <<>>
    /\ evaluated = {}
    /\ result = Report("none", "none", 0)
    /\ prev = NoPrev
    /\ passes = 0
    /\ sched = NoSchedule
    /\ verdict = NoVerdict

InitRequest ==
    /\ AtRest
    /\ call = NoCall
    /\ limiter = NoLimiter
    /\ http \in {NewRequest(method, retries) :
                    method \in ClientMethods, retries \in 0..MaxRetries}

request_attempt ==
    /\ http.state = "running"
    /\ \E resp \in Responses : http' = attempt_once(http, resp)
    /\ UNCHANGED <<config, now, denylist, allowlist, paused, pc, client, log,
                   actions, evaluated, result, prev, passes, sched, verdict,
                   call, limiter>>

NextRequest == request_attempt

SpecRequest == InitRequest /\ [][NextRequest]_vars

(***************************************************************************)
(* SpecMalformed: both evaluators applied to a schedule of one block whose *)
(* time ranges may hold strings that are not HH:MM: an hour above 23, a    *)
(* minute above 59, no colon, or no 'start' key at all.  (Text that is not *)
(* a number takes the same path as a number out of range: int() raises     *)
(* ValueError inside parse_time.)                                          *)
(***************************************************************************)
MaxMalformedRanges == 2     \* time ranges in the block

MalformedStarts == {<<9, 0>>, <<24, 0>>, <<900>>, <<>>}

MalformedEnds == {<<17, 0>>, <<9, 60>>}

MalformedInputs ==
    {[shape |-> "hours",
      available_hours |-> <<[days |-> ds, time_ranges |-> trs]>>] :
        ds \in SUBSET SchedDays,
        trs \in SeqsUpTo({TimeRange(a, b) : a \in MalformedStarts, b \in MalformedEnds},
                         MaxMalformedRanges)}

\* Thursday .. Sunday, inside and outside 09:00-17:00
MalformedInstants == {At(day, h, 0, 0) : day \in 3..6, h \in {12, 18}}

InitMalformed ==
    /\ sched \in MalformedInputs
    /\ verdict = NoVerdict
    /\ config = [domains |-> <<>>, allowlist |-> <<>>]
    /\ now = At(0, 0, 0, 0)
    /\ denylist = {}
    /\ allowlist = {}
    /\ paused = FALSE
    /\ pc = Idle
    /\ client = NewClient
    /\ log = <<>>
    /\ actions = <<>>
    /\ evaluated = {}
    /\ result = Report("none", "none", 0)
    /\ prev = NoPrev
    /\ passes = 0
    /\ call = NoCall
    /\ limiter = NoLimiter
    /\ http = NoRequest

evaluate_malformed == Evaluated(MalformedInstants)

NextMalformed == evaluate_malformed

SpecMalformed == InitMalformed /\ [][NextMalformed]_vars

(***************************************************************************)
(* SpecLimiter: RateLimiter (client.py 36-80).                             *)
(*   limiter = [max_requests, window_seconds, requests, clock, admitted,   *)
(*              last]                                                      *)
(* requests is self.requests; clock is the wall clock in seconds; admitted *)
(* is the history of every timestamp acquire() has recorded; last          *)
(* describes the latest acquire(): the time the caller arrived, whether    *)
(* the limit was reached, the oldest retained timestamp then, the time     *)
(* waited (the return value) and the timestamp recorded.                   *)
(* The limiter is built with max_requests in 1..MaxLimit and               *)
(* window_seconds in 1..MaxWindow.                                         *)
(***************************************************************************)
MaxLimit == 3       \* largest max_requests
MaxWindow == 3      \* largest window_seconds
MaxAcquires == 5    \* acquire() calls in one behaviour
MaxLimClock == 6    \* latest arrival time of a caller
MaxOversleep == 1   \* seconds sleep() may take beyond the time asked for

\* mutant: a timestamp exactly window_seconds old is kept
prune_inclusive(requests, cutoff) == SelectSeq(requests, LAMBDA ts : ts >= cutoff)

\* line 67: self.requests = [ts for ts in self.requests if ts > cutoff]
prune(requests, cutoff) ==
    SelectSeq(requests, LAMBDA ts : ts > cutoff)

\* mutant: the limit test with > for >=
limit_reached_strict(l, retained) ==
    Len(retained) > l.max_requests

\* line 70: len(self.requests) >= self.max_requests
limit_reached(l, retained) ==
    Len(retained) >= l.max_requests

\* RateLimiter.acquire; sleep(wait_time) takes wait_time + over seconds
acquire(l, over) ==
    LET now0 == l.clock
        cutoff == now0 - l.window_seconds
        retained == prune(l.requests, cutoff)
        full == limit_reached(l, retained)
        wait_time == IF full THEN retained[1] - cutoff ELSE 0
        sleeps == full /\ wait_time > 0
        now1 == IF sleeps THEN now0 + wait_time + over ELSE now0
    IN [l EXCEPT !.requests = Append(retained, now1),
                 !.clock = now1,
                 !.admitted = Append(@, now1),
                 !.last = [arrived |-> now0, full |-> full,
                           oldest |-> IF full THEN retained[1] ELSE 0,
                           waited |-> IF sleeps THEN wait_time ELSE 0,
                           stamp |-> now1]]

NoAcquire == [arrived |-> 0, full |-> FALSE, oldest |-> 0, waited |-> 0, stamp |-> 0]

NewLimiter(max_requests, window_seconds) ==
    [max_requests |-> max_requests, window_seconds |-> window_seconds,
     requests |-> <<>>, clock |-> 0, admitted |-> <<>>, last |-> NoAcquire]

InitLimiter ==
    /\ AtRest
    /\ call = NoCall
    /\ http = NoRequest
    /\ limiter \in {NewLimiter(m, w) : m \in 1..MaxLimit, w \in 1..MaxWindow}

limiter_acquire ==
    /\ Len(limiter.admitted) < MaxAcquires
    /\ \E over \in 0..MaxOversleep : limiter' = acquire(limiter, over)
    /\ UNCHANGED <<config, now, denylist, allowlist, paused, pc, client, log,
                   actions, evaluated, result, prev, passes, sched, verdict,
                   call, http>>

\* a second passes between two calls
limiter_tick ==
    /\ limiter.clock < MaxLimClock
    /\ limiter' = [limiter EXCEPT !.clock = @ + 1]
    /\ UNCHANGED <<config, now, denylist, allowlist, paused, pc, client, log,
                   actions, evaluated, result, prev, passes, sched, verdict,
                   call, http>>

NextLimiter == limiter_acquire \/ limiter_tick

SpecLimiter == InitLimiter /\ [][NextLimiter]_vars

(***************************************************************************)
(* SpecClient: the operations of one NextDNSClient, called in any order on *)
(* the remote lists, with time passing between the calls.  Nothing else    *)
(* writes the remote lists.  denylist / allowlist are the remote lists,    *)
(* client the caches and the clock, log the requests of the latest call.   *)
(*   call = [n, op, domain, use_cache, res, deny0, allow0, cache0,         *)
(*           acache0, clock0, clean, prior, dfetch, afetch]                *)
(* n counts the calls; op, domain, use_cache and res are the latest call,  *)
(* its arguments and its return value ("True", "False", "None", or "list"  *)
(* for a returned list); deny0 .. clock0 are the remote lists, the caches  *)
(* and the clock when it was made; clean tells that no request of the      *)
(* client has failed so far; prior summarises the call before it.          *)
(* dfetch and                                                              *)
(* afetch are the history of each cache: whether a set() has happened      *)
(* since construction and the last invalidate(), the members and the time  *)
(* of the last set(), and the domains optimistically added or removed      *)
(* since.                                                                  *)
(***************************************************************************)
MaxCalls == 2        \* client operations in one behaviour
MaxClientTicks == 2  \* clock advances of HalfTTL seconds in one behaviour

HalfTTL == CACHE_TTL \div 2

ClientDomains == {"work.example.com", "games.example.com"}

ClientAllowDomains == {"docs.example.com"}

Unfetched == [known |-> FALSE, members |-> {}, at |-> 0, touched |-> {}]

NoPrior == [op |-> "none", domain |-> None, res |-> None, writes |-> 0, clean |-> TRUE]

FirstCall ==
    [n |-> 0, op |-> "none", domain |-> None, use_cache |-> TRUE, res |-> None,
     deny0 |-> {}, allow0 |-> {}, cache0 |-> NewCache, acache0 |-> NewCache,
     clock0 |-> 0, clean |-> TRUE, prior |-> NoPrior,
     dfetch |-> Unfetched, afetch |-> Unfetched]

Writes(lg) == Cardinality({k \in 1..Len(lg) : lg[k].method \in {"POST", "DELETE"}})

\* the history of the cache of `list` after a call that sent the requests lg
Fetched(f, lg, list, members, clock, invalidates) ==
    LET Got(k) == lg[k].list = list /\ lg[k].method = "GET" /\ lg[k].outcome = "ok"
        Wrote(k) == /\ lg[k].list = list /\ lg[k].method \in {"POST", "DELETE"}
                    /\ lg[k].outcome = "ok"
        f1 == IF invalidates THEN Unfetched ELSE f
        f2 == IF \E k \in 1..Len(lg) : Got(k)
              THEN [known |-> TRUE, members |-> members, at |-> clock, touched |-> {}]
              ELSE f1
    IN [f2 EXCEPT !.touched = @ \cup {lg[k].id : k \in {j \in 1..Len(lg) : Wrote(j)}}]

BoolRes(b) == IF b THEN "True" ELSE "False"

\* the client operation `op` has run from world w0 and ended in r
Called(op, domain, use_cache, r, res) ==
    /\ call.n < MaxCalls
    /\ denylist' = r.w.deny
    /\ allowlist' = r.w.allow
    /\ client' = [cache |-> r.w.cache, acache |-> r.w.acache, clock |-> r.w.clock]
    /\ log' = r.w.log
    /\ call' = [n |-> call.n + 1, op |-> op, domain |-> domain,
                use_cache |-> use_cache, res |-> res,
                deny0 |-> denylist, allow0 |-> allowlist,
                cache0 |-> client.cache, acache0 |-> client.acache,
                clock0 |-> client.clock,
                clean |-> call.clean /\ NumFaults(r.w.log) = 0,
                prior |-> [op |-> call.op, domain |-> call.domain, res |-> call.res,
                           writes |-> Writes(log), clean |-> NumFaults(log) = 0],
                dfetch |-> Fetched(call.dfetch, r.w.log, "denylist", denylist,
                                   client.clock, op = "refresh_cache"),
                afetch |-> Fetched(call.afetch, r.w.log, "allowlist", allowlist,
                                   client.clock, op = "refresh_allowlist_cache")]
    /\ UNCHANGED <<config, now, paused, pc, actions, evaluated, result, prev,
                   passes, sched, verdict, limiter, http>>

client_is_blocked ==
    \E domain \in ClientDomains, o \in ReadOutcomes :
        LET r == is_blocked(World(domain, <<>>), domain, o)
        IN Called("is_blocked", domain, TRUE, r, BoolRes(r.res))

client_is_allowed ==
    \E domain \in ClientAllowDomains, o \in ReadOutcomes :
        LET r == is_allowed(World(domain, <<>>), domain, o)
        IN Called("is_allowed", domain, TRUE, r, BoolRes(r.res))

client_get_denylist ==
    \E use_cache \in BOOLEAN, o \in ReadOutcomes :
        LET r == get_denylist(World(None, <<>>), use_cache, o)
        IN Called("get_denylist", None, use_cache, r,
                  IF r.res = <<>> THEN None ELSE "list")

client_get_allowlist ==
    \E use_cache \in BOOLEAN, o \in ReadOutcomes :
        LET r == get_allowlist(World(None, <<>>), use_cache, o)
        IN Called("get_allowlist", None, use_cache, r,
                  IF r.res = <<>> THEN None ELSE "list")

client_block ==
    \E domain \in ClientDomains, o1 \in ReadOutcomes, o2 \in Outcomes :
        LET r == block(World(domain, <<>>), domain, o1, o2)
        IN Called("block", domain, TRUE, r, BoolRes(r.res))

client_unblock ==
    \E domain \in ClientDomains, o1 \in ReadOutcomes, o2 \in Outcomes :
        LET r == unblock(World(domain, <<>>), domain, o1, o2)
        IN Called("unblock", domain, TRUE, r, BoolRes(r.res))

client_allow ==
    \E domain \in ClientAllowDomains, o1 \in ReadOutcomes, o2 \in Outcomes :
        LET r == allow(World(domain, <<>>), domain, o1, o2)
        IN Called("allow", domain, TRUE, r, BoolRes(r.res))

client_disallow ==
    \E domain \in ClientAllowDomains, o1 \in ReadOutcomes, o2 \in Outcomes :
        LET r == disallow(World(domain, <<>>), domain, o1, o2)
        IN Called("disallow", domain, TRUE, r, BoolRes(r.res))

client_refresh_cache ==
    \E o \in ReadOutcomes :
        LET r == refresh_cache(World(None, <<>>), o)
        IN Called("refresh_cache", None, FALSE, r, BoolRes(r.res))

client_refresh_allowlist_cache ==
    \E o \in ReadOutcomes :
        LET r == refresh_allowlist_cache(World(None, <<>>), o)
        IN Called("refresh_allowlist_cache", None, FALSE, r, BoolRes(r.res))

\* time passes between two calls
client_tick ==
    /\ client.clock < MaxClientTicks * HalfTTL
    /\ client' = [client EXCEPT !.clock = @ + HalfTTL]
    /\ UNCHANGED <<config, now, denylist, allowlist, paused, pc, log, actions,
                   evaluated, result, prev, passes, sched, verdict, call,
                   limiter, http>>

InitClient ==
    /\ config = [domains |-> <<>>, allowlist |-> <<>>]
    /\ now = At(0, 0, 0, 0)
    /\ denylist \in SUBSET ClientDomains
    /\ allowlist \in SUBSET ClientAllowDomains
    /\ paused = FALSE
    /\ pc = Idle
    /\ client = NewClient
    /\ log = <<>>
    /\ actions = <<>>
    /\ evaluated = {}
    /\ result = Report("none", "none", 0)
    /\ prev = NoPrev
    /\ passes = 0
    /\ sched = NoSchedule
    /\ verdict = NoVerdict
    /\ call = FirstCall
    /\ limiter = NoLimiter
    /\ http = NoRequest

NextClient ==
    \/ client_is_blocked
    \/ client_is_allowed
    \/ client_get_denylist
    \/ client_get_allowlist
    \/ client_block
    \/ client_unblock
    \/ client_allow
    \/ client_disallow
    \/ client_refresh_cache
    \/ client_refresh_allowlist_cache
    \/ client_tick

SpecClient == InitClient /\ [][NextClient]_vars

(***************************************************************************)
(* SpecValidate: one write operation of a NextDNSClient called with any    *)
(* name of up to MaxNameLen characters, on a client whose caches are empty *)
(* or filled.                                                              *)
(*   call = [op, domain, raised, res, cache0, acache0]                     *)
(* op, domain and res are the call, its argument and its return value;     *)
(* raised tells that DomainValidationError left it; cache0 and acache0 are *)
(* the caches when it was made.  log holds the requests of the call; the   *)
(* limiter is asked only inside request(), once for each attempt.          *)
(***************************************************************************)
NotCalled ==
    [op |-> "none", domain |-> "", raised |-> FALSE, res |-> None,
     cache0 |-> NewCache, acache0 |-> NewCache]

Validated(op, domain, r) ==
    /\ call.op = "none"
    /\ denylist' = r.w.deny
    /\ allowlist' = r.w.allow
    /\ client' = [cache |-> r.w.cache, acache |-> r.w.acache, clock |-> r.w.clock]
    /\ log' = r.w.log
    /\ call' = [op |-> op, domain |-> domain, raised |-> r.raised,
                res |-> IF r.raised THEN None ELSE BoolRes(r.res),
                cache0 |-> client.cache, acache0 |-> client.acache]
    /\ UNCHANGED <<config, now, paused, pc, actions, evaluated, result, prev,
                   passes, sched, verdict, limiter, http>>

validate_block ==
    \E domain \in RawNames, o1 \in ReadOutcomes, o2 \in Outcomes :
        Validated("block", domain, block(World(domain, <<>>), domain, o1, o2))

validate_unblock ==
    \E domain \in RawNames, o1 \in ReadOutcomes, o2 \in Outcomes :
        Validated("unblock", domain, unblock(World(domain, <<>>), domain, o1, o2))

validate_allow ==
    \E domain \in RawNames, o1 \in ReadOutcomes, o2 \in Outcomes :
        Validated("allow", domain, allow(World(domain, <<>>), domain, o1, o2))

validate_disallow ==
    \E domain \in RawNames, o1 \in ReadOutcomes, o2 \in Outcomes :
        Validated("disallow", domain, disallow(World(domain, <<>>), domain, o1, o2))

InitValidate ==
    /\ config = [domains |-> <<>>, allowlist |-> <<>>]
    /\ now = At(0, 0, 0, 0)
    /\ denylist \in SUBSET {"a", "a.a"}
    /\ allowlist \in SUBSET {"a-a"}
    /\ paused = FALSE
    /\ pc = Idle
    /\ \E filled \in BOOLEAN :
          client = IF filled
                   THEN [NewClient EXCEPT !.cache = cache_set(@, denylist, 0),
                                          !.acache = cache_set(@, allowlist, 0)]
                   ELSE NewClient
    /\ log = <<>>
    /\ actions = <<>>
    /\ evaluated = {}
    /\ result = Report("none", "none", 0)
    /\ prev = NoPrev
    /\ passes = 0
    /\ sched = NoSchedule
    /\ verdict = NoVerdict
    /\ call = NotCalled
    /\ limiter = NoLimiter
    /\ http = NoRequest

NextValidate ==
    \/ validate_block
    \/ validate_unblock
    \/ validate_allow
    \/ validate_disallow

SpecValidate == InitValidate /\ [][NextValidate]_vars

(***************************************************************************)
(* SpecCache: one DenylistCache (AllowlistCache is the same code) driven   *)
(* by arbitrary calls of set, add_domain, remove_domain and invalidate     *)
(* while the clock advances.  `call` remembers the last method, the cache  *)
(* before it, when the list was last stored by set() and how many          *)
(* optimistic updates followed.                                            *)
(***************************************************************************)
MaxCacheOps == 4      \* method calls in one behaviour
MaxCacheTicks == 3    \* clock advances of HalfTTL seconds in one behaviour

CacheDomains == {"work.example.com", "games.example.com"}

NeverStored == [known |-> FALSE, at |-> 0, updates |-> 0]

NoCacheCall ==
    [steps |-> 0, op |-> "none", domain |-> None, cache0 |-> NewCache,
     stored |-> NeverStored]

\* the method `op` has run and left the cache c
CacheCalled(op, domain, c) ==
    /\ call.steps < MaxCacheOps
    /\ client' = [client EXCEPT !.cache = c]
    /\ call' = [steps |-> call.steps + 1, op |-> op, domain |-> domain,
                cache0 |-> client.cache,
                stored |-> IF op = "set"
                           THEN [known |-> TRUE, at |-> client.clock, updates |-> 0]
                           ELSE IF op = "invalidate" THEN NeverStored
                           ELSE [call.stored EXCEPT !.updates = @ + 1]]
    /\ UNCHANGED <<config, now, denylist, allowlist, paused, pc, log, actions,
                   evaluated, result, prev, passes, sched, verdict, limiter, http>>

cache_call_set ==
    \E data \in SUBSET CacheDomains :
        CacheCalled("set", None, cache_set(client.cache, data, client.clock))

cache_call_add_domain ==
    \E domain \in CacheDomains :
        CacheCalled("add_domain", domain, add_domain(client.cache, domain))

cache_call_remove_domain ==
    \E domain \in CacheDomains :
        CacheCalled("remove_domain", domain, remove_domain(client.cache, domain))

cache_call_invalidate ==
    CacheCalled("invalidate", None, invalidate(client.cache))

cache_clock ==
    /\ client.clock < MaxCacheTicks * HalfTTL
    /\ client' = [client EXCEPT !.clock = @ + HalfTTL]
    /\ UNCHANGED <<config, now, denylist, allowlist, paused, pc, log, actions,
                   evaluated, result, prev, passes, sched, verdict, call,
                   limiter, http>>

InitCache ==
    /\ AtRest
    /\ call = NoCacheCall
    /\ limiter = NoLimiter
    /\ http = NoRequest

NextCache ==
    \/ cache_call_set
    \/ cache_call_add_domain
    \/ cache_call_remove_domain
    \/ cache_call_invalidate
    \/ cache_clock

SpecCache == InitCache /\ [][NextCache]_vars

(***************************************************************************)
(* SpecPlan: the same command run twice from the same configuration,       *)
(* instant and remote lists, once as a dry run and once for real, in       *)
(* either order.  `call` keeps the remote lists both passes start from and *)
(* what each finished pass printed and sent; the end of the first pass     *)
(* puts the remote lists back.  load_domains accepts a domain that is      *)
(* listed twice (config.py 507-519), so one such configuration is among    *)
(* the inputs.                                                             *)
(***************************************************************************)
ListedTwice ==
    [domains |-> <<Rule("work.example.com", NoSchedule, FALSE),
                   Rule("work.example.com", WorkHours, FALSE)>>,
     allowlist |-> <<>>]

PlanConfigs == Configs \cup {ListedTwice}

\* the write a request stands for
KindOf(entry) ==
    IF entry.list = "allowlist" THEN "Allow"
    ELSE IF entry.method = "POST" THEN "Block" ELSE "Unblock"

\* what a finished pass printed (`Would ...` lines or results) and sent
Outcome ==
    [dry_run |-> pc.dry_run,
     reported |-> {<<actions[k].domain, actions[k].kind>> : k \in 1..Len(actions)},
     attempted |-> {<<log[k].id, KindOf(log[k])>> :
                        k \in {j \in 1..Len(log) :
                                    log[j].method \in {"POST", "DELETE"}}},
     fetch_failed |-> \E k \in 1..Len(log) : log[k].method = "GET" /\ IsFault(log[k])]

plan_start ==
    /\ pc.cmd = "idle" /\ Len(call.passes) < 2
    /\ Begin(call.cmd, IF call.passes = <<>> THEN call.dry_first ELSE ~call.dry_first)

plan_return ==
    /\ pc.cmd \in {"sync", "cmd_sync"} /\ pc.phase = "done"
    /\ call' = [call EXCEPT !.passes = Append(@, Outcome)]
    /\ denylist' = call.deny0
    /\ allowlist' = call.allow0
    /\ result' = Report(pc.cmd, "done", exit_code(pc.cmd, log))
    /\ pc' = Idle
    /\ client' = NewClient
    /\ log' = <<>>
    /\ actions' = <<>>
    /\ evaluated' = {}
    /\ prev' = NoPrev
    /\ UNCHANGED <<config, now, paused, passes, sched, verdict, limiter, http>>

InitPlan ==
    /\ config \in PlanConfigs
    /\ now \in SyncInstants
    /\ denylist \in RemoteDeny
    /\ allowlist \in RemoteAllow
    /\ paused = FALSE
    /\ pc = Idle
    /\ client = NewClient
    /\ log = <<>>
    /\ actions = <<>>
    /\ evaluated = {}
    /\ result = Report("none", "none", 0)
    /\ prev = NoPrev
    /\ passes = 0
    /\ sched = NoSchedule
    /\ verdict = NoVerdict
    /\ call \in {[cmd |-> cmd, dry_first |-> dry_first, passes |-> <<>>,
                  deny0 |-> denylist, allow0 |-> allowlist] :
                    cmd \in {"sync", "cmd_sync"}, dry_first \in BOOLEAN}
    /\ limiter = NoLimiter
    /\ http = NoRequest

NextPlan ==
    \/ plan_start
    \/ sync_denylist
    \/ sync_allowlist
    \/ cmd_sync_allowlist
    \/ cmd_sync_protected
    \/ cmd_sync_scheduled
    \/ plan_return
    \/ Tick

SpecPlan == InitPlan /\ [][NextPlan]_vars

(***************************************************************************)
(* SpecPause: the pause file with two processes, one running is_paused()   *)
(* (the checker) and one running set_pause() (the setter), step by system  *)
(* call.  `call` holds                                                     *)
(*   impl     "cli" (cli.py _get_pause_info / common.py read_secure_file)  *)
(*            or "mono" (nextdns_blocker.py is_paused),                    *)
(*   path     the inode the name PAUSE_FILE points to, 0 for no file,      *)
(*   content  per inode "" (empty), "expired", "valid" (an earlier pause   *)
(*            that has not run out) or "new" (what set_pause writes),      *)
(*   lock     per inode the process holding flock() on it,                 *)
(*   checker, setter  [at: position, fd: inode opened, got: content read,  *)
(*            res: return value],                                          *)
(*   later    what an is_paused() run after set_pause returned answered.   *)
(* Inode 1 is the file that exists at the start; open(O_CREAT) of a        *)
(* missing file makes inode 2.  O_TRUNC empties the file in open(), before *)
(* any lock is requested.                                                  *)
(***************************************************************************)
Inodes == {1, 2}

NoProc == [at |-> "start", fd |-> 0, got |-> "", res |-> None]

PauseStep(c) ==
    /\ call' = c
    /\ UNCHANGED <<config, now, denylist, allowlist, paused, pc, client, log,
                   actions, evaluated, result, prev, passes, sched, verdict,
                   limiter, http>>

\* datetime.now() < pause_until
not_expired(content) == content \in {"valid", "new"}

\* common.py read_secure_file: `if not path.exists(): return None`
\* (lines 255-256), so _get_pause_info returns (False, None)
read_exists ==
    /\ call.impl = "cli" /\ call.checker.at = "start"
    /\ PauseStep([call EXCEPT !.checker =
            IF call.path = 0 THEN [@ EXCEPT !.at = "done", !.res = FALSE]
            ELSE [@ EXCEPT !.at = "open"]])

\* open(path, 'r') in read_secure_file (line 259), open(PAUSE_FILE, 'r+') in
\* is_paused (nextdns_blocker.py 245); a missing file ends both with False
check_open ==
    /\ \/ call.impl = "cli" /\ call.checker.at = "open"
       \/ call.impl = "mono" /\ call.checker.at = "start"
    /\ PauseStep([call EXCEPT !.checker =
            IF call.path = 0 THEN [@ EXCEPT !.at = "done", !.res = FALSE]
            ELSE [@ EXCEPT !.at = "lock", !.fd = call.path]])

\* flock(LOCK_SH) in read_secure_file, flock(LOCK_EX) in is_paused: both
\* wait while the setter holds its exclusive lock
check_lock ==
    /\ call.checker.at = "lock"
    /\ call.lock[call.checker.fd] = "none"
    /\ PauseStep([call EXCEPT !.lock[call.checker.fd] = "checker",
                              !.checker.at = "read"])

\* f.read().strip() and what follows up to the next system call.
\* cli: the lock is released, empty content or a running pause ends the
\* call, an expired pause goes on to unlink (cli.py 116-121).
\* mono: empty content or a running pause ends the call and releases the
\* lock, an expired pause goes on to truncate (nextdns_blocker.py 249-259).
check_read ==
    /\ call.checker.at = "read"
    /\ LET got == call.content[call.checker.fd]
           ends == got = "" \/ not_expired(got)
       IN PauseStep([call EXCEPT
            !.lock[call.checker.fd] =
                IF call.impl = "cli" \/ ends THEN "none" ELSE @,
            !.checker = IF ends
                        THEN [@ EXCEPT !.at = "done", !.got = got,
                                       !.res = not_expired(got)]
                        ELSE [@ EXCEPT !.got = got,
                                       !.at = IF call.impl = "cli" THEN "unlink"
                                              ELSE "truncate"]])

\* f.seek(0); f.truncate() under the lock (nextdns_blocker.py 258-259)
check_truncate ==
    /\ call.checker.at = "truncate"
    /\ PauseStep([call EXCEPT !.content[call.checker.fd] = "",
                              !.checker.at = "unlock"])

\* finally: flock(LOCK_UN) (nextdns_blocker.py 261)
check_unlock ==
    /\ call.checker.at = "unlock"
    /\ PauseStep([call EXCEPT !.lock[call.checker.fd] = "none",
                              !.checker.at = "unlink"])

\* pause_file.unlink(missing_ok=True) (cli.py 120), _remove_pause_file()
\* outside the lock (nextdns_blocker.py 264, 297-302): the name is removed,
\* whatever file it points to by now
check_unlink ==
    /\ call.checker.at = "unlink"
    /\ PauseStep([call EXCEPT !.path = 0,
                              !.checker.at = "done", !.checker.res = FALSE])

\* write_secure_file: os.open(path, O_WRONLY | O_CREAT | O_TRUNC) (line 228)
write_open ==
    /\ call.setter.at = "start"
    /\ PauseStep(IF call.path = 0
                 THEN [call EXCEPT !.path = 2, !.content[2] = "",
                                   !.setter.at = "lock", !.setter.fd = 2]
                 ELSE [call EXCEPT !.content[call.path] = "",
                                   !.setter.at = "lock", !.setter.fd = call.path])

\* flock(LOCK_EX) (line 233)
write_lock ==
    /\ call.setter.at = "lock"
    /\ call.lock[call.setter.fd] = "none"
    /\ PauseStep([call EXCEPT !.lock[call.setter.fd] = "setter",
                              !.setter.at = "write"])

\* f.write(content) (line 235)
write_content ==
    /\ call.setter.at = "write"
    /\ PauseStep([call EXCEPT !.content[call.setter.fd] = "new",
                              !.setter.at = "close"])

\* flock(LOCK_UN); f.close(); set_pause returns (lines 237-238)
write_close ==
    /\ call.setter.at = "close"
    /\ PauseStep([call EXCEPT !.lock[call.setter.fd] = "none",
                              !.setter.at = "done", !.setter.res = TRUE])

\* what is_paused() answers when it runs alone on the present files
is_paused_now == call.path # 0 /\ not_expired(call.content[call.path])

\* a later is_paused(), after set_pause has returned and before the new
\* pause runs out; on a file that is missing, empty or running it changes
\* nothing
later_is_paused ==
    /\ call.setter.at = "done" /\ call.later = None
    /\ PauseStep([call EXCEPT !.later = BoolRes(is_paused_now)])

InitPause ==
    /\ AtRest
    /\ call \in {[impl |-> impl, path |-> path,
                  content |-> [i \in Inodes |-> IF i = 1 /\ path = 1 THEN content
                                                ELSE ""],
                  lock |-> [i \in Inodes |-> "none"],
                  checker |-> NoProc, setter |-> NoProc, later |-> None] :
                    impl \in {"cli", "mono"}, path \in {0, 1},
                    content \in {"", "expired", "valid"}}
    /\ limiter = NoLimiter
    /\ http = NoRequest

NextPause ==
    \/ read_exists
    \/ check_open
    \/ check_lock
    \/ check_read
    \/ check_truncate
    \/ check_unlock
    \/ check_unlink
    \/ write_open
    \/ write_lock
    \/ write_content
    \/ write_close
    \/ later_is_paused

SpecPause == InitPause /\ [][NextPause]_vars

(***************************************************************************)
(* SpecOrder: should_block on a well-formed schedule and on rearrangements *)
(* of it.  `sched` is the schedule as configured; `call.permuted` is the   *)
(* same schedule after any number of exchanges of two blocks or of two     *)
(* time ranges of one block; should_block is then evaluated on both at one *)
(* instant.                                                                *)
(***************************************************************************)
MaxOrderBlocks == 2     \* availability blocks in a schedule
MaxOrderRanges == 2     \* time ranges in a block

\* 09:00-17:00, the overnight 22:00-02:00, and 02:00-09:00
OrderRanges == {TimeRange(<<9, 0>>, <<17, 0>>), TimeRange(<<22, 0>>, <<2, 0>>),
                TimeRange(<<2, 0>>, <<9, 0>>)}

\* sequences of up to n different elements of S
DistinctSeqs(S, n) ==
    {s \in SeqsUpTo(S, n) : \A i, j \in DOMAIN s : s[i] = s[j] => i = j}

OrderBlocks ==
    {[days |-> ds, time_ranges |-> trs] :
        ds \in {{"friday"}, {"friday", "saturday"}},
        trs \in DistinctSeqs(OrderRanges, MaxOrderRanges)}

OrderSchedules ==
    {[shape |-> "hours", available_hours |-> bs] :
        bs \in SeqsUpTo(OrderBlocks, MaxOrderBlocks)}

\* Friday .. Sunday, inside and outside the ranges
OrderInstants ==
    {At(day, h, 0, 0) : day \in 4..6, h \in {1, 9, 12, 23}}

NoOrderCall == [permuted |-> NoSchedule, done |-> FALSE, at |-> At(0, 0, 0, 0),
                straight |-> TRUE, shuffled |-> TRUE]

\* seq with the elements at i and j exchanged
Exchanged(seq, i, j) == [seq EXCEPT ![i] = seq[j], ![j] = seq[i]]

OrderStep(c) ==
    /\ call' = c
    /\ UNCHANGED <<config, now, denylist, allowlist, paused, pc, client, log,
                   actions, evaluated, result, prev, passes, sched, verdict,
                   limiter, http>>

\* the same blocks written in another order
exchange_blocks ==
    /\ ~call.done
    /\ \E i, j \in DOMAIN call.permuted.available_hours :
          /\ i < j
          /\ OrderStep([call EXCEPT !.permuted.available_hours = Exchanged(@, i, j)])

\* the same time ranges of one block written in another order
exchange_ranges ==
    /\ ~call.done
    /\ \E b \in DOMAIN call.permuted.available_hours :
       \E i, j \in DOMAIN call.permuted.available_hours[b].time_ranges :
          /\ i < j
          /\ OrderStep([call EXCEPT !.permuted.available_hours[b].time_ranges =
                                        Exchanged(@, i, j)])

\* ScheduleEvaluator.should_block on the schedule and on its rearrangement,
\* both with the clock reading `at`
evaluate_both ==
    /\ ~call.done
    /\ \E at \in OrderInstants :
          OrderStep([call EXCEPT !.done = TRUE, !.at = at,
                                 !.straight = should_block(sched, at),
                                 !.shuffled = should_block(call.permuted, at)])

InitOrder ==
    /\ sched \in OrderSchedules
    /\ verdict = NoVerdict
    /\ config = [domains |-> <<>>, allowlist |-> <<>>]
    /\ now = At(0, 0, 0, 0)
    /\ denylist = {}
    /\ allowlist = {}
    /\ paused = FALSE
    /\ pc = Idle
    /\ client = NewClient
    /\ log = <<>>
    /\ actions = <<>>
    /\ evaluated = {}
    /\ result = Report("none", "none", 0)
    /\ prev = NoPrev
    /\ passes = 0
    /\ call = [NoOrderCall EXCEPT !.permuted = sched]
    /\ limiter = NoLimiter
    /\ http = NoRequest

NextOrder ==
    \/ exchange_blocks
    \/ exchange_ranges
    \/ evaluate_both

SpecOrder == InitOrder /\ [][NextOrder]_vars

(***************************************************************************)
(* SpecBackoff: the retry loop of NextDNSClient.request for clients built  *)
(* with enough retries for the backoff to reach its cap.  The attempts are *)
(* those of SpecRequest; the responses are one of each way an attempt can  *)
(* end: a timeout, a connection error, a status that is retried, a status  *)
(* that is not, and a success.                                             *)
(***************************************************************************)
MaxBackoffRetries == 6      \* largest `retries` a client is built with

BackoffResponses ==
    {[kind |-> k, status |-> 0, body |-> "none"] : k \in {"Timeout", "ConnectionError"}}
    \cup {[kind |-> "Response", status |-> st, body |-> "json"] : st \in {200, 404, 503}}

InitBackoff ==
    /\ AtRest
    /\ call = NoCall
    /\ limiter = NoLimiter
    /\ http \in {NewRequest("GET", retries) : retries \in 0..MaxBackoffRetries}

backoff_attempt ==
    /\ http.state = "running"
    /\ \E resp \in BackoffResponses : http' = attempt_once(http, resp)
    /\ UNCHANGED <<config, now, denylist, allowlist, paused, pc, client, log,
                   actions, evaluated, result, prev, passes, sched, verdict,
                   call, limiter>>

NextBackoff == backoff_attempt

SpecBackoff == InitBackoff /\ [][NextBackoff]_vars

(***************************************************************************)
(* SpecActive: the denylist as the list of entries the API returns, each   *)
(* entry {"id": ..., "active": ...}, and the membership tests of the       *)
(* client on it.  `call` holds                                             *)
(*   remote   the remote denylist, a sequence of entries with different    *)
(*            ids,                                                         *)
(*   cache    the DenylistCache, its _data a list of entries,              *)
(*   clock    the wall clock,                                              *)
(*   touch    for each domain the latest successful write of the client    *)
(*            since the list was last fetched: "added", "removed" or       *)
(*            "none",                                                      *)
(*   op, domain, res  the latest operation, its argument and its answer    *)
(*            ("True", "False" or None),                                   *)
(*   basis    <<>> if the operation had no list to answer from, else       *)
(*            <<[list, touch]>>: the list fetched for it, or the cached    *)
(*            list and the writes since it was fetched,                    *)
(*   posts    the POST requests the operation sent,                        *)
(*   n, ticks the number of operations and of clock advances so far.       *)
(* A request either succeeds ("ok") or fails ("fail").                     *)
(***************************************************************************)
MaxActiveOps == 3       \* operations in one behaviour
MaxActiveTicks == 2     \* clock advances of HalfTTL seconds

ActiveDomains == {"work.example.com", "games.example.com"}

ActiveOutcomes == {"ok", "fail"}

Entry(id, active) == [id |-> id, active |-> active]

\* the remote lists: up to one entry for each domain, in either order, each
\* entry active or not
RemoteLists ==
    {s \in SeqsUpTo({Entry(d, a) : d \in ActiveDomains, a \in BOOLEAN}, 2) :
        \A i, j \in DOMAIN s : s[i].id = s[j].id => i = j}

NoTouch == [d \in ActiveDomains |-> "none"]

\* mutant: only the entries with active = true are members
entry_ids_active_only(data) == {data[k].id : k \in {j \in DOMAIN data : data[j].active}}

\* line 118: {entry.get("id", "") for entry in data}
entry_ids(data) ==
    {data[k].id : k \in DOMAIN data}

\* DenylistCache.set on a list of entries
set_entries(data, clock) == [data |-> <<data>>, domains |-> entry_ids(data), ts |-> clock]

RECURSIVE find_entry(_, _)
\* lines 401-404: for entry in denylist: if entry.get("id") == domain: return domain
find_entry(data, domain) ==
    IF data = <<>> THEN None
    ELSE IF Head(data).id = domain THEN domain
    ELSE find_entry(Tail(data), domain)

\* get_denylist on the state s = [remote, cache, clock, touch]; o is the
\* outcome of the GET if one is sent
get_denylist_entries(s, use_cache, o) ==
    IF use_cache /\ cache_get(s.cache, s.clock) # <<>>
    THEN [s |-> s, res |-> cache_get(s.cache, s.clock)]
    ELSE IF o # "ok" THEN [s |-> s, res |-> <<>>]
    ELSE [s |-> [s EXCEPT !.cache = set_entries(s.remote, s.clock), !.touch = NoTouch],
          res |-> <<s.remote>>]

find_domain_entries(s, domain, use_cache, o) ==
    IF use_cache /\ contains(s.cache, domain, s.clock) # None
    THEN [s |-> s,
          res |-> IF contains(s.cache, domain, s.clock) = "True" THEN domain ELSE None,
          basis |-> <<[list |-> s.cache.data[1], touch |-> s.touch]>>]
    ELSE LET g == get_denylist_entries(s, use_cache, o)
         IN IF g.res = <<>> THEN [s |-> g.s, res |-> None, basis |-> <<>>]
            ELSE [s |-> g.s, res |-> find_entry(g.res[1], domain),
                  basis |-> <<[list |-> g.res[1], touch |-> NoTouch]>>]

is_blocked_entries(s, domain, o) ==
    LET f == find_domain_entries(s, domain, TRUE, o)
    IN [s |-> f.s, res |-> f.res # None, basis |-> f.basis]

\* block: the POST body is {"id": domain, "active": True}
block_entries(s, domain, o1, o2) ==
    LET f == find_domain_entries(s, domain, TRUE, o1)
    IN IF f.res # None THEN [s |-> f.s, res |-> TRUE, posts |-> 0]
       ELSE IF o2 # "ok" THEN [s |-> f.s, res |-> FALSE, posts |-> 1]
       ELSE [s |-> [f.s EXCEPT
                      !.remote = IF \E k \in DOMAIN @ : @[k].id = domain THEN @
                                 ELSE Append(@, Entry(domain, TRUE)),
                      !.cache = add_domain(@, domain),
                      !.touch[domain] = "added"],
             res |-> TRUE, posts |-> 1]

\* unblock: DELETE .../denylist/{domain}
unblock_entries(s, domain, o1, o2) ==
    LET f == find_domain_entries(s, domain, TRUE, o1)
    IN IF f.res = None THEN [s |-> f.s, res |-> TRUE, posts |-> 0]
       ELSE IF o2 # "ok" THEN [s |-> f.s, res |-> FALSE, posts |-> 0]
       ELSE [s |-> [f.s EXCEPT
                      !.remote = SelectSeq(@, LAMBDA e : e.id # domain),
                      !.cache = remove_domain(@, domain),
                      !.touch[domain] = "removed"],
             res |-> TRUE, posts |-> 0]

ActiveState ==
    [remote |-> call.remote, cache |-> call.cache, clock |-> call.clock,
     touch |-> call.touch]

ActiveStep(op, domain, s, res, basis, posts) ==
    /\ call.n < MaxActiveOps
    /\ call' = [remote |-> s.remote, cache |-> s.cache, clock |-> s.clock,
                touch |-> s.touch, op |-> op, domain |-> domain, res |-> res,
                basis |-> basis, posts |-> posts, n |-> call.n + 1,
                ticks |-> call.ticks]
    /\ UNCHANGED <<config, now, denylist, allowlist, paused, pc, client, log,
                   actions, evaluated, result, prev, passes, sched, verdict,
                   limiter, http>>

active_contains ==
    \E domain \in ActiveDomains :
    \E r \in {contains(call.cache, domain, call.clock)} :
        ActiveStep("contains", domain, ActiveState, r,
                   IF r = None THEN <<>>
                   ELSE <<[list |-> call.cache.data[1], touch |-> call.touch]>>, 0)

active_find_domain ==
    \E domain \in ActiveDomains, use_cache \in BOOLEAN, o \in ActiveOutcomes :
    \E f \in {find_domain_entries(ActiveState, domain, use_cache, o)} :
        ActiveStep("find_domain", domain, f.s, BoolRes(f.res # None), f.basis, 0)

active_is_blocked ==
    \E domain \in ActiveDomains, o \in ActiveOutcomes :
    \E f \in {is_blocked_entries(ActiveState, domain, o)} :
        ActiveStep("is_blocked", domain, f.s, BoolRes(f.res), f.basis, 0)

\* the body of the denylist loop of sync (cli.py 326-357) for one domain
\* that is not protected, dry_run off; res is what is_blocked answered
active_sync_domain ==
    \E domain \in ActiveDomains, should_block_now \in BOOLEAN,
       o1 \in ActiveOutcomes, o2 \in ActiveOutcomes, o3 \in ActiveOutcomes :
    \E ib \in {is_blocked_entries(ActiveState, domain, o1)} :
        IF should_block_now /\ ~ib.res
        THEN \E b \in {block_entries(ib.s, domain, o2, o3)} :
                ActiveStep("sync", domain, b.s, "False", ib.basis, b.posts)
        ELSE IF ~should_block_now /\ ib.res
        THEN \E u \in {unblock_entries(ib.s, domain, o2, o3)} :
                ActiveStep("sync", domain, u.s, "True", ib.basis, 0)
        ELSE ActiveStep("sync", domain, ib.s, BoolRes(ib.res), ib.basis, 0)

\* HalfTTL seconds pass
active_clock ==
    /\ call.ticks < MaxActiveTicks
    /\ call' = [call EXCEPT !.clock = @ + HalfTTL, !.ticks = @ + 1]
    /\ UNCHANGED <<config, now, denylist, allowlist, paused, pc, client, log,
                   actions, evaluated, result, prev, passes, sched, verdict,
                   limiter, http>>

InitActive ==
    /\ AtRest
    /\ call \in {[remote |-> r, cache |-> NewCache, clock |-> 0, touch |-> NoTouch,
                  op |-> "none", domain |-> None, res |-> None, basis |-> <<>>,
                  posts |-> 0, n |-> 0, ticks |-> 0] : r \in RemoteLists}
    /\ limiter = NoLimiter
    /\ http = NoRequest

NextActive ==
    \/ active_contains
    \/ active_find_domain
    \/ active_is_blocked
    \/ active_sync_domain
    \/ active_clock

SpecActive == InitActive /\ [][NextActive]_vars

(***************************************************************************)
(* Vocabulary of the properties.                                           *)
(***************************************************************************)
Running == pc.cmd \in {"sync", "cmd_sync"}

Done == Running /\ pc.phase = "done"

Monday1000 == At(0, 10, 0, 0)

\* should_block of the evaluator the running pass uses
Desired(d) ==
    IF pc.cmd = "sync" THEN should_block(RuleOf(d).schedule, now)
    ELSE mono_should_block(RuleOf(d).schedule, now)

IsWrite(entry) == entry.method \in {"POST", "DELETE"}

\* positions of the requests `method list/id` in the log
Sent(method, list, id) ==
    {k \in 1..Len(log) : log[k].method = method /\ log[k].list = list /\ log[k].id = id}

\* a denylist fetch failed while the pass was handling d
ReadFailed(d) ==
    \E k \in 1..Len(log) :
        log[k].item = d /\ log[k].method = "GET" /\ log[k].list = "denylist" /\ IsFault(log[k])

\* some request made while handling item d failed
OwnFault(d) == \E k \in 1..Len(log) : log[k].item = d /\ IsFault(log[k])

Emitted(d, kind) == \E k \in 1..Len(actions) : actions[k].domain = d /\ actions[k].kind = kind

DecisionTable(d) ==
    /\ (Sent("POST", "denylist", d) # {}) <=> (Desired(d) /\ d \notin pc.deny0)
    /\ (Sent("DELETE", "denylist", d) # {}) <=> (~Desired(d) /\ d \in pc.deny0)
    /\ Cardinality(Sent("POST", "denylist", d)) + Cardinality(Sent("DELETE", "denylist", d)) <= 1

C2_Converges ==
    (Done /\ ~pc.dry_run /\ NumFaults(log) = 0) =>
        /\ \A d \in ConfigNames :
              /\ Desired(d) => d \in denylist
              /\ (d \notin ProtectedNames /\ ~Desired(d)) => d \notin denylist
        /\ RangeOf(config.allowlist) \subseteq allowlist

\* a clean pass that had work to do right after a pass that was killed after
\* it had already acted
C2_Witness ==
    /\ Done /\ ~pc.dry_run /\ NumFaults(log) = 0
    /\ pc.after.cmd = "killed" /\ pc.after.acted
    /\ actions # <<>>

C5_AsClaimed ==
    Done => \A d \in ProtectedNames : d \notin pc.deny0 => Emitted(d, "Block")

(***************************************************************************)
(* C6 (as claimed): within a pass no allowlist POST follows a denylist     *)
(* write.                                                                  *)
(***************************************************************************)
C6_AsClaimed ==
    Running =>
        \A i, j \in 1..Len(log) :
            (i < j /\ IsWrite(log[i]) /\ log[i].list = "denylist")
                => ~(log[j].method = "POST" /\ log[j].list = "allowlist")

(***************************************************************************)
(* C7: a dry-run pass sends only GET requests and leaves both remote lists *)
(* as they were when it started.                                           *)
(***************************************************************************)
C7_DryRunWritesNothing ==
    (Running /\ pc.dry_run) =>
        /\ \A k \in 1..Len(log) : log[k].method = "GET"
        /\ denylist = pc.deny0
        /\ allowlist = pc.allow0

\* a finished dry run that reported a Block and an Allow it did not apply
C7_Witness ==
    /\ Done /\ pc.dry_run /\ log # <<>>
    /\ \E d \in ConfigNames : Emitted(d, "Block") /\ d \notin denylist
    /\ \E a \in RangeOf(config.allowlist) : Emitted(a, "Allow") /\ a \notin allowlist

(***************************************************************************)
(* C8: a pass always reaches its end having handled every configured       *)
(* domain and allowlist entry, whatever requests failed on the way; in a   *)
(* non-dry-run pass every item none of whose own requests failed is then   *)
(* in its desired remote state.                                            *)
(***************************************************************************)
C8_FailureDoesNotAbort ==
    Done =>
        /\ evaluated = ConfigNames \cup RangeOf(config.allowlist)
        /\ ~pc.dry_run =>
              /\ \A d \in ConfigNames \ ProtectedNames :
                    ~OwnFault(d) => (Desired(d) <=> d \in denylist)
              /\ \A a \in RangeOf(config.allowlist) :
                    ~OwnFault(a) => a \in allowlist

\* a write failed for one item and a later write for another item went through
C8_Witness ==
    /\ Done /\ ~pc.dry_run
    /\ \E i, j \in 1..Len(log) :
          /\ i < j
          /\ IsWrite(log[i]) /\ log[i].outcome = "fail"
          /\ IsWrite(log[j]) /\ log[j].outcome = "ok"
          /\ log[j].item # log[i].item

(***************************************************************************)
(* C9 (as claimed): a finished non-dry-run pass reports failure (non-zero  *)
(* exit status) iff at least one of its requests failed.                   *)
(***************************************************************************)
C9_AsClaimed ==
    (result.status = "done" /\ prev.cmd = result.cmd) =>
        (prev.faults > 0 <=> result.exit_code # 0)

(***************************************************************************)
(* C10: for a schedule of one block with one same-day range (start <= end) *)
(* both evaluators return false iff the weekday is listed and              *)
(* start <= current time <= end, and true otherwise.                       *)
(***************************************************************************)
C10_SameDayRange ==
    (/\ verdict.done
     /\ sched.shape = "hours"
     /\ Len(sched.available_hours) = 1
     /\ Len(sched.available_hours[1].time_ranges) = 1) =>
        LET b == sched.available_hours[1]
            r == b.time_ranges[1]
            start == r.start[1] * 3600 + r.start[2] * 60
            end == r.end[1] * 3600 + r.end[2] * 60
            inside == /\ DAYS_MAP[verdict.at.day + 1] \in b.days
                      /\ start <= verdict.at.time
                      /\ verdict.at.time <= end
        IN start <= end => (verdict.pkg = ~inside /\ verdict.mono = ~inside)

\* available exactly at the inclusive end of a same-day range
C10_Witness ==
    /\ verdict.done /\ sched.shape = "hours"
    /\ Len(sched.available_hours) = 1
    /\ sched.available_hours[1].days = {"friday"}
    /\ sched.available_hours[1].time_ranges = <<TimeRange(<<9, 0>>, <<17, 0>>)>>
    /\ verdict.at = At(4, 17, 0, 0)
    /\ ~verdict.pkg /\ ~verdict.mono

\* the single block and single range of the schedule under evaluation
OneRange ==
    /\ sched.shape = "hours"
    /\ Len(sched.available_hours) = 1
    /\ Len(sched.available_hours[1].time_ranges) = 1

Today == DAYS_MAP[verdict.at.day + 1]

Yesterday == DAYS_MAP[((verdict.at.day + 6) % 7) + 1]

Seconds(hm) == hm[1] * 3600 + hm[2] * 60

(***************************************************************************)
(* C11 (as claimed): for a schedule of one block with one overnight range  *)
(* (start > end) whose days contain the current weekday, both evaluators   *)
(* return false iff current time >= start or current time < end; at        *)
(* current time = end the range does not match.                            *)
(***************************************************************************)
C11_AsClaimed ==
    (verdict.done /\ OneRange /\ Today \in sched.available_hours[1].days) =>
        LET r == sched.available_hours[1].time_ranges[1]
            start == Seconds(r.start)
            end == Seconds(r.end)
            inside == verdict.at.time >= start \/ verdict.at.time < end
        IN start > end => (verdict.pkg = ~inside /\ verdict.mono = ~inside)

(***************************************************************************)
(* C12 (as claimed): for a schedule whose only range is 22:00-02:00 on the *)
(* single weekday D, both evaluators return false at D 23:00 and at        *)
(* D+1 01:00, and true at D 12:00 and at D+1 02:00.                        *)
(***************************************************************************)
C12_AsClaimed ==
    (/\ verdict.done /\ OneRange
     /\ sched.available_hours[1].time_ranges[1] = TimeRange(<<22, 0>>, <<2, 0>>)
     /\ Cardinality(sched.available_hours[1].days) = 1) =>
        LET days == sched.available_hours[1].days
            t == verdict.at.time
        IN /\ (Today \in days /\ t = Seconds(<<23, 0>>)) => (~verdict.pkg /\ ~verdict.mono)
           /\ (Yesterday \in days /\ t = Seconds(<<1, 0>>)) => (~verdict.pkg /\ ~verdict.mono)
           /\ (Today \in days /\ t = Seconds(<<12, 0>>)) => (verdict.pkg /\ verdict.mono)
           /\ (Yesterday \in days /\ t = Seconds(<<2, 0>>)) => (verdict.pkg /\ verdict.mono)

\* no availability can apply to the schedule at the evaluated instant
NoAvailability ==
    \/ sched.shape \in {"None", "{}", "no_hours"}
    \/ \A k \in 1..Len(sched.available_hours) :
          LET b == sched.available_hours[k]
          IN \/ b.days = {}
             \/ (Today \notin b.days /\ Yesterday \notin b.days)
             \/ b.time_ranges = <<>>

(***************************************************************************)
(* C13: both evaluators return true at every instant for a schedule that   *)
(* is None, {} or without 'available_hours', whose 'available_hours' is    *)
(* empty, or every block of which has no days, no day matching today or    *)
(* yesterday, or no time ranges.                                           *)
(***************************************************************************)
C13_NoAvailabilityBlocks ==
    (verdict.done /\ NoAvailability) => (verdict.pkg /\ verdict.mono)

\* a block that lists the current day but has no time ranges
C13_Witness ==
    /\ verdict.done /\ sched.shape = "hours"
    /\ Len(sched.available_hours) = 1
    /\ sched.available_hours[1].days = {"friday", "saturday"}
    /\ sched.available_hours[1].time_ranges = <<>>
    /\ verdict.at = At(4, 12, 0, 0)
    /\ verdict.pkg /\ verdict.mono

\* the k-th attempt met an HTTP response with a status in S
MetStatus(k, S) == http.seen[k].kind = "Response" /\ http.seen[k].status \in S

Transient == {429} \cup {st \in ErrStatuses : 500 <= st /\ st < 600}

Permanent == {st \in ErrStatuses : 400 <= st /\ st < 500 /\ st # 429}

Succeeded(k) ==
    /\ MetStatus(k, OkStatuses)
    /\ http.seen[k].body \in {"empty", "json"}

(***************************************************************************)
(* C17 (as claimed): a request whose every attempt met HTTP 429 or 5xx     *)
(* is retried up to `retries` times: it returns failure only after exactly *)
(* retries+1 attempts.                                                     *)
(***************************************************************************)
C17_AsClaimed ==
    (http.state = "returned" /\ http.seen # <<>>
                             /\ \A k \in 1..Len(http.seen) : MetStatus(k, Transient)) =>
        (http.result = None /\ http.attempts = http.retries + 1)

(***************************************************************************)
(* C18: request() never makes more than retries+1 attempts and is running  *)
(* only while fewer have been made; if every attempt timed out it returns  *)
(* None after exactly retries+1 attempts, and if the attempts before the   *)
(* last timed out and the last succeeded it returns the successful result  *)
(* after exactly that many attempts.                                       *)
(***************************************************************************)
C18_TimeoutRetries ==
    http.state # "none" =>
        /\ http.attempts <= http.retries + 1
        /\ http.state = "running" => http.attempts <= http.retries
        /\ http.attempts = Len(http.seen)
        /\ (http.state = "returned"
            /\ \A k \in 1..Len(http.seen) : http.seen[k].kind = "Timeout") =>
               (http.result = None /\ http.attempts = http.retries + 1)
        /\ (/\ http.state # "running" /\ http.seen # <<>>
            /\ \A k \in 1..(Len(http.seen) - 1) : http.seen[k].kind = "Timeout"
            /\ Succeeded(Len(http.seen))) =>
               (http.state = "returned" /\ http.result # None)

\* two timeouts, then success: the result is returned after exactly 3 attempts
C18_Witness ==
    /\ http.state = "returned" /\ http.retries = 3
    /\ Len(http.seen) = 3
    /\ http.seen[1].kind = "Timeout" /\ http.seen[2].kind = "Timeout"
    /\ MetStatus(3, OkStatuses) /\ http.seen[3].body = "json"
    /\ http.result = "json" /\ http.attempts = 3

(***************************************************************************)
(* C19: an attempt that meets a 4xx status other than 429 is the last one: *)
(* request() has returned None, no attempt follows it and no backoff was   *)
(* slept for it, whatever the value of retries.                            *)
(***************************************************************************)
C19_PermanentFailure ==
    http.state # "none" =>
        \A k \in 1..Len(http.seen) :
            MetStatus(k, Permanent) =>
                /\ http.state = "returned" /\ http.result = None
                /\ k = Len(http.seen) /\ http.attempts = k
                /\ Len(http.slept) = k - 1

\* a 404 on the first attempt of a client built with retries = 3
C19_Witness ==
    /\ http.state = "returned" /\ http.retries = 3
    /\ Len(http.seen) = 1 /\ MetStatus(1, {404})
    /\ http.result = None /\ http.attempts = 1 /\ http.slept = <<>>

(***************************************************************************)
(* C20: whatever the attempts of a request meet (timeout, connection       *)
(* error, non-2xx status, a body that is not JSON), no exception leaves    *)
(* request(): it returns None or the parsed body.                          *)
(***************************************************************************)
C20_NeverRaises ==
    http.state # "none" =>
        /\ http.state \in {"running", "returned"}
        /\ http.state = "returned" => http.result \in {None, "json", "success"}

\* the retries run out on connection errors, and a 2xx body is not JSON
C20_Witness ==
    /\ http.state = "returned" /\ http.result = None
    /\ http.seen # <<>>
    /\ \/ /\ http.attempts = http.retries + 1 /\ http.retries > 0
          /\ \A k \in 1..Len(http.seen) : http.seen[k].kind = "ConnectionError"
       \/ /\ MetStatus(Len(http.seen), OkStatuses)
          /\ http.seen[Len(http.seen)].body = "garbage"

\* number of recorded timestamps in the window (t - window_seconds, t]
InWindow(t) ==
    Cardinality({k \in 1..Len(limiter.admitted) :
                    /\ limiter.admitted[k] > t - limiter.window_seconds
                    /\ limiter.admitted[k] <= t})

(***************************************************************************)
(* C16: after any sequence of acquire() calls, for every instant t at most *)
(* max_requests recorded timestamps lie in (t - window_seconds, t]; and a  *)
(* caller that arrived when max_requests timestamps were retained had its  *)
(* own timestamp recorded only when the oldest of them had left the        *)
(* window.                                                                 *)
(***************************************************************************)
C16_RateLimitBound ==
    limiter.max_requests > 0 =>
        /\ \A t \in 0..(limiter.clock + limiter.window_seconds) :
              InWindow(t) <= limiter.max_requests
        /\ limiter.last.full =>
              /\ limiter.last.oldest <= limiter.last.stamp - limiter.window_seconds
              /\ limiter.last.waited > 0

\* a caller that was delayed, and the window is full again at its timestamp
C16_Witness ==
    /\ limiter.max_requests > 1
    /\ limiter.last.full /\ limiter.last.waited > 0
    /\ limiter.last.stamp > limiter.last.arrived
    /\ InWindow(limiter.last.stamp) = limiter.max_requests

\* the state is one of SpecClient
InClient == "n" \in DOMAIN call

\* the cache c, whose history is f, answers for the domains of `names` as a
\* cache last set at f.at with f.members must: definite and equal to
\* membership in f.members while less than TTL seconds old (except for the
\* domains optimistically changed since), unknown otherwise
RoundTrip(c, f, names) ==
    LET age == client.clock - f.at
    IN /\ (f.known /\ age < CACHE_TTL) =>
              /\ cache_get(c, client.clock) = <<f.members>>
              /\ \A m \in names \ f.touched :
                    contains(c, m, client.clock) = BoolRes(m \in f.members)
       /\ (~f.known \/ age >= CACHE_TTL) =>
              /\ cache_get(c, client.clock) = <<>>
              /\ \A m \in names : contains(c, m, client.clock) = None

\* the latest call was a membership query on `list` made while the cache c0
\* answered unknown, and its first request was a fetch of that list
Refetched(ops, c0, list) ==
    (call.op \in ops /\ contains(c0, call.domain, call.clock0) = None) =>
        /\ log # <<>>
        /\ log[1].method = "GET" /\ log[1].list = list

(***************************************************************************)
(* C14: after set(members) at time t, contains(m) is True for the members  *)
(* and False for every other domain, and get() returns the list, at every  *)
(* time t' with t' - t < CACHE_TTL, except for domains optimistically      *)
(* added or removed since; at every t' with t' - t >= CACHE_TTL, before    *)
(* the first set and after invalidate(), contains() and get() return None, *)
(* and a membership query made then starts with a remote fetch.  The same  *)
(* for the allowlist cache.                                                *)
(***************************************************************************)
C14_CacheRoundTrip ==
    InClient =>
        /\ RoundTrip(client.cache, call.dfetch, ClientDomains)
        /\ RoundTrip(client.acache, call.afetch, ClientAllowDomains)
        /\ Refetched({"is_blocked", "block", "unblock"}, call.cache0, "denylist")
        /\ Refetched({"is_allowed", "allow", "disallow"}, call.acache0, "allowlist")

\* a membership query made when the cached list was TTL seconds old: it
\* fetched the list again and the new cache lists the domain
C14_Witness ==
    /\ InClient /\ call.op = "is_blocked" /\ call.res = "True"
    /\ call.cache0.data # <<>>
    /\ call.clock0 - call.cache0.ts = CACHE_TTL
    /\ Len(log) = 1 /\ log[1].method = "GET" /\ log[1].outcome = "ok"
    /\ contains(client.cache, call.domain, client.clock) = "True"

WriteOps == {"block", "unblock", "allow", "disallow"}

\* the write asked for is already in effect on the remote list
Redundant ==
    \/ call.op = "block" /\ call.domain \in call.deny0
    \/ call.op = "unblock" /\ call.domain \notin call.deny0
    \/ call.op = "allow" /\ call.domain \in call.allow0
    \/ call.op = "disallow" /\ call.domain \notin call.allow0

NoOpWrites ==
    /\ Redundant => (call.res = "True" /\ Writes(log) = 0)
    /\ (call.prior.op = call.op /\ call.prior.domain = call.domain) =>
          /\ Writes(log) = 0
          /\ call.prior.writes + Writes(log) <= 1
          /\ denylist = call.deny0 /\ allowlist = call.allow0

DenyOps == {"get_denylist", "is_blocked", "block", "unblock", "refresh_cache"}

\* the cache the latest call works on, when the call was made and afterwards
Cache0 == IF call.op \in DenyOps THEN call.cache0 ELSE call.acache0

CacheAfter == IF call.op \in DenyOps THEN client.cache ELSE client.acache

Remote == IF call.op \in DenyOps THEN denylist ELSE allowlist

Remote0 == IF call.op \in DenyOps THEN call.deny0 ELSE call.allow0

Adds == call.op \in {"block", "allow"}

\* the cache could not answer for the domain when the call was made
Unknown0 == contains(Cache0, call.domain, call.clock0) = None

\* the call began with a fetch of the list, and the fetch failed
FetchFailed == log # <<>> /\ log[1].method = "GET" /\ log[1].outcome = "fail"

\* the call sent a write that the remote answered with a 2xx status
WriteAccepted ==
    \E k \in 1..Len(log) : IsWrite(log[k]) /\ log[k].outcome \in {"ok", "bad"}

(***************************************************************************)
(* C22 (as claimed): whenever block(d) / allow(d) returns True after       *)
(* sending a write, the cache answers contains(d) = True, and whenever     *)
(* unblock(d) / disallow(d) returns True after sending a write it answers  *)
(* contains(d) = False, with no fetch after the write.                     *)
(***************************************************************************)
C22_AsClaimed ==
    (InClient /\ call.op \in WriteOps /\ call.res = "True" /\ Writes(log) > 0) =>
        /\ IsWrite(log[Len(log)])
        /\ contains(CacheAfter, call.domain, call.clock0) = BoolRes(Adds)

(***************************************************************************)
(* C23 (as claimed): when the cache is unknown and the fetch fails,        *)
(* is_blocked / is_allowed do not answer False, and block / unblock /      *)
(* allow / disallow neither send a write nor return True.                  *)
(***************************************************************************)
C23_AsClaimed ==
    (InClient /\ call.op \in {"is_blocked", "is_allowed"} \cup WriteOps
              /\ Unknown0 /\ FetchFailed) =>
        /\ call.op \in {"is_blocked", "is_allowed"} => call.res # "False"
        /\ call.op \in WriteOps => (Writes(log) = 0 /\ call.res # "True")

(***************************************************************************)
(* C24 (as claimed): with no other writer on the remote lists, when        *)
(* block(d) / allow(d) returns True d is in the remote list, and when      *)
(* unblock(d) / disallow(d) returns True d is not in it.                   *)
(***************************************************************************)
C24_AsClaimed ==
    (InClient /\ call.op \in WriteOps /\ call.res = "True") =>
        (call.domain \in Remote) = Adds

(***************************************************************************)
(* C29: a read with use_cache = True sends no request while the cache is   *)
(* valid, and a write sends no GET then; get_denylist / get_allowlist with *)
(* use_cache = False and the refresh operations send exactly one request,  *)
(* a GET of their list; after a read whose fetch succeeded the cache holds *)
(* exactly the fetched list, stamped with the time of the call.            *)
(***************************************************************************)
C29_CacheFirstReads ==
    InClient =>
        /\ (call.op \in {"get_denylist", "get_allowlist", "is_blocked", "is_allowed"}
              /\ call.use_cache /\ is_valid(Cache0, call.clock0))
           => log = <<>>
        /\ (call.op \in WriteOps /\ is_valid(Cache0, call.clock0))
           => \A k \in 1..Len(log) : log[k].method # "GET"
        /\ (call.op \in {"get_denylist", "get_allowlist", "refresh_cache",
                         "refresh_allowlist_cache"} /\ ~call.use_cache)
           => /\ Len(log) = 1 /\ log[1].method = "GET"
              /\ log[1].list = IF call.op \in DenyOps THEN "denylist" ELSE "allowlist"
        /\ (call.op \notin WriteOps \cup {"none"}
              /\ \E k \in 1..Len(log) : log[k].outcome = "ok")
           => CacheAfter = [data |-> <<Remote0>>, domains |-> Remote0,
                            ts |-> call.clock0]

\* get_denylist() answered from a valid cache that an earlier call had filled
C29_Witness ==
    /\ InClient /\ call.op = "get_denylist" /\ call.use_cache
    /\ is_valid(call.cache0, call.clock0) /\ call.clock0 > call.cache0.ts
    /\ log = <<>> /\ call.res = "list"
    /\ call.dfetch.known /\ call.dfetch.members = denylist

(***************************************************************************)
(* C30 (as claimed): a write answered with a 2xx status, whatever its      *)
(* body, makes block / unblock / allow / disallow return True and the      *)
(* optimistic update is applied to the cache.                              *)
(***************************************************************************)
C30_AsClaimed ==
    (InClient /\ call.op \in WriteOps /\ WriteAccepted) =>
        /\ call.res = "True"
        /\ CacheAfter.data # <<>> => (call.domain \in CacheAfter.domains) = Adds

\* the state is one of SpecRequest
InRequest == "events" \in DOMAIN http

(***************************************************************************)
(* C28: within a request() call every HTTP attempt, retries included, is   *)
(* immediately preceded by one acquire() of its own: the calls and the     *)
(* attempts alternate, starting with an acquire(), and there are as many   *)
(* acquire() calls as attempts.                                            *)
(***************************************************************************)
C28_AcquireBeforeEveryAttempt ==
    InRequest =>
        /\ http.acquires = http.attempts
        /\ Len(http.events) = 2 * http.attempts
        /\ \A k \in 1..Len(http.events) :
              http.events[k] = IF k % 2 = 1 THEN "acquire" ELSE "send"

\* a request that was retried twice: three attempts, three acquire() calls
C28_Witness ==
    /\ InRequest /\ http.state = "returned"
    /\ http.attempts = 3 /\ http.acquires = 3 /\ Len(http.slept) = 2

\* the state is one of SpecValidate
InValidate == "raised" \in DOMAIN call

\* RFC 1035 syntax as the client is specified to check it: labels of letters,
\* digits and inner hyphens, joined by single dots, within the length limits
IsDomainName(name) ==
    LET text == chars(name)
    IN /\ text # <<>> /\ Len(text) <= MAX_DOMAIN_LENGTH
       /\ labels_match(text)

(***************************************************************************)
(* C21 (as claimed): block, unblock, allow and disallow called with a name *)
(* that is not a syntactically valid domain raise DomainValidationError,   *)
(* send no request (so acquire no slot of the limiter) and leave both      *)
(* caches as they were.                                                    *)
(***************************************************************************)
C21_AsClaimed ==
    (InValidate /\ call.op \in WriteOps /\ ~IsDomainName(call.domain)) =>
        /\ call.raised
        /\ log = <<>>
        /\ client.cache = call.cache0 /\ client.acache = call.acache0

\* some time range of the schedule has a start or an end that is not HH:MM
HasMalformed(schedule) ==
    \E b \in 1..Len(schedule.available_hours) :
        \E r \in 1..Len(schedule.available_hours[b].time_ranges) :
            time_range_error(schedule.available_hours[b].time_ranges[r]) # "none"

(***************************************************************************)
(* C27 (as claimed): should_block raises an error for every schedule that  *)
(* holds a time range whose start or end is not a valid HH:MM, at every    *)
(* instant, whatever the days of the enclosing block and whatever ranges   *)
(* come before it.                                                         *)
(***************************************************************************)
C27_AsClaimed ==
    (verdict.done /\ HasMalformed(sched)) =>
        (verdict.pkg_error # "none" /\ verdict.mono_error # "none")

\* the state is one of SpecDefect
InDefect == config \in DefectConfigs

(***************************************************************************)
(* C25 (as claimed): a configured name that the client rejects with        *)
(* DomainValidationError does not end the pass: the exception never leaves *)
(* the loops, so every later domain and allowlist entry is handled.        *)
(***************************************************************************)
C25_AsClaimed ==
    (InDefect /\ Running) => pc.phase # "DomainValidationError"

(***************************************************************************)
(* C26 (as claimed): a schedule whose evaluation fails on malformed data   *)
(* does not end the pass: no exception of the evaluator leaves the loops.  *)
(***************************************************************************)
C26_AsClaimed ==
    (InDefect /\ Running) => pc.phase \notin {"ValueError", "KeyError", "AttributeError"}

\* the state is one of SpecCache
InCache == "stored" \in DOMAIN call

\* the domains for which contains() answers True
Members(c, clock) == {d \in CacheDomains : contains(c, d, clock) = "True"}

(***************************************************************************)
(* C31 (as claimed): whenever the cache is valid, the ids of the list      *)
(* returned by get() are exactly the domains for which contains() returns  *)
(* True, after any sequence of set, add_domain, remove_domain, invalidate. *)
(***************************************************************************)
C31_AsClaimed ==
    (InCache /\ is_valid(client.cache, client.clock)) =>
        cache_get(client.cache, client.clock)[1] = Members(client.cache, client.clock)

(***************************************************************************)
(* C32: add_domain and remove_domain leave the stored list and the fetch   *)
(* timestamp as they were, so the cache is valid after them exactly if it  *)
(* was valid before; and at every moment the cache is valid exactly if a   *)
(* list was stored by set(), not invalidated since, less than CACHE_TTL    *)
(* seconds ago, however many optimistic updates followed.                  *)
(***************************************************************************)
C32_OptimisticUpdatesKeepValidity ==
    InCache =>
        /\ call.op \in {"add_domain", "remove_domain"} =>
              /\ client.cache.ts = call.cache0.ts
              /\ client.cache.data = call.cache0.data
              /\ is_valid(client.cache, client.clock)
                    = is_valid(call.cache0, client.clock)
        /\ is_valid(client.cache, client.clock)
              <=> (call.stored.known /\ client.clock - call.stored.at < CACHE_TTL)

\* two optimistic updates after a fetch, and the cache has run out on time
C32_Witness ==
    /\ InCache
    /\ call.op = "add_domain"
    /\ call.stored.known /\ call.stored.updates >= 2
    /\ call.domain \in client.cache.domains
    /\ client.clock - call.stored.at >= CACHE_TTL
    /\ ~is_valid(client.cache, client.clock)

\* the call sent a fetch of the list that failed
FetchFailedIn ==
    \E k \in 1..Len(log) : log[k].method = "GET" /\ log[k].outcome = "fail"

\* the call sent a fetch of the list that succeeded
FetchedIn ==
    \E k \in 1..Len(log) : log[k].method = "GET" /\ log[k].outcome = "ok"

\* the call sent a write for which request() returned None
WriteFailedIn ==
    \E k \in 1..Len(log) : IsWrite(log[k]) /\ log[k].outcome # "ok"

RefreshOps == {"refresh_cache", "refresh_allowlist_cache"}

ReadOps == {"get_denylist", "get_allowlist", "is_blocked", "is_allowed"}

\* the cache of the other list, when the call was made and afterwards
OtherCache0 == IF call.op \in DenyOps THEN call.acache0 ELSE call.cache0

OtherCacheAfter == IF call.op \in DenyOps THEN client.acache ELSE client.cache

(***************************************************************************)
(* C33 (as claimed): after a call whose fetch failed, and after a call     *)
(* whose write failed, the cache is exactly what it was before the call;   *)
(* only the refresh operations leave it emptied after a failed fetch.      *)
(***************************************************************************)
C33_AsClaimed ==
    (InClient /\ call.op # "none") =>
        /\ (call.op \in ReadOps /\ FetchFailedIn) => CacheAfter = Cache0
        /\ (call.op \in WriteOps /\ WriteFailedIn) => CacheAfter = Cache0
        /\ (call.op \in RefreshOps /\ FetchFailedIn) => CacheAfter \in {Cache0, NewCache}

(***************************************************************************)
(* C33: a failed request changes no cache.  After a read whose fetch       *)
(* failed the cache is what it was before the call; after a write call     *)
(* whose write or whose lookup fetch failed the cache is what the lookup   *)
(* left, i.e. unchanged unless the lookup fetched the list successfully,   *)
(* in which case it holds that list stamped with the time of the call; a   *)
(* refresh whose fetch failed leaves the cache emptied; the cache of the   *)
(* other list is never touched.                                            *)
(***************************************************************************)
C33_FailedRequestKeepsCache ==
    (InClient /\ call.op # "none") =>
        /\ (call.op \in ReadOps /\ FetchFailedIn) => CacheAfter = Cache0
        /\ (call.op \in WriteOps /\ (WriteFailedIn \/ FetchFailedIn)
                /\ ~\E k \in 1..Len(log) : IsWrite(log[k]) /\ log[k].outcome = "ok") =>
              CacheAfter = IF FetchedIn
                           THEN cache_set(Cache0, Remote0, call.clock0)
                           ELSE Cache0
        /\ (call.op \in RefreshOps /\ FetchFailedIn) => CacheAfter = NewCache
        /\ OtherCacheAfter = OtherCache0

\* block() looked the domain up with a successful fetch, then its POST failed
C33_Witness ==
    /\ InClient
    /\ call.op = "block"
    /\ Len(log) = 2
    /\ log[1].method = "GET" /\ log[1].outcome = "ok"
    /\ log[2].method = "POST" /\ log[2].outcome = "fail"
    /\ call.res = "False"
    /\ CacheAfter # Cache0
    /\ CacheAfter.domains = call.deny0

\* the state is one of SpecPlan
InPlan == "dry_first" \in DOMAIN call

\* both passes are finished
Compared == InPlan /\ Len(call.passes) = 2

DryPass == IF call.dry_first THEN call.passes[1] ELSE call.passes[2]

RealPass == IF call.dry_first THEN call.passes[2] ELSE call.passes[1]

C35_PassFrame ==
    (Running /\ config \in Configs) =>
        /\ pc.allow0 \subseteq allowlist
        /\ (allowlist \ pc.allow0) \subseteq RangeOf(config.allowlist)
        /\ \A d \in (denylist \cup pc.deny0) \ ConfigNames :
              d \in denylist /\ d \in pc.deny0
        /\ \A k \in 1..Len(log) :
              IsWrite(log[k]) =>
                 \/ log[k].list = "denylist" /\ log[k].id \in ConfigNames
                 \/ /\ log[k].list = "allowlist" /\ log[k].method = "POST"
                    /\ log[k].id \in RangeOf(config.allowlist)

\* a finished pass has blocked, unblocked and allowed, and the denylist
\* entry that the configuration does not mention is where it was
C35_Witness ==
    /\ Done /\ ~pc.dry_run /\ config \in Configs
    /\ "other.example.com" \in pc.deny0 /\ "other.example.com" \in denylist
    /\ \E k \in 1..Len(log) : log[k].method = "POST" /\ log[k].list = "denylist"
                                /\ log[k].outcome = "ok"
    /\ \E k \in 1..Len(log) : log[k].method = "DELETE" /\ log[k].list = "denylist"
                                /\ log[k].outcome = "ok"
    /\ \E k \in 1..Len(log) : log[k].method = "POST" /\ log[k].list = "allowlist"
                                /\ log[k].outcome = "ok"
    /\ denylist # pc.deny0 /\ allowlist # pc.allow0

\* the state is one of SpecPause
InPause == "setter" \in DOMAIN call

\* is_paused() found an expired pause in the file and goes on to clean up
ExpiredAtStart == call.checker.got = "expired"

(***************************************************************************)
(* C36 (as claimed): when is_paused() runs on an expired pause file while  *)
(* another process runs set_pause(), the cleanup never deletes or empties  *)
(* the pause that set_pause has written: once set_pause has returned, the  *)
(* file holds the new pause and every later is_paused() answers True.      *)
(***************************************************************************)
C36_AsClaimed ==
    (InPause /\ ExpiredAtStart /\ call.setter.at = "done") =>
        /\ is_paused_now
        /\ call.later # "False"

\* the state is one of SpecOrder
InOrder == "permuted" \in DOMAIN call

(***************************************************************************)
(* C37: should_block gives the same boolean for a well-formed schedule and *)
(* for any rearrangement of its blocks and of the time ranges inside its   *)
(* blocks, at every instant.                                               *)
(***************************************************************************)
C37_OrderIrrelevant ==
    (InOrder /\ call.done) => call.shuffled = call.straight

\* the window that makes the domain available is in the second block as
\* configured and in the first block of the rearrangement, whose ranges are
\* rearranged as well
C37_Witness ==
    /\ InOrder /\ call.done /\ ~call.straight
    /\ Len(sched.available_hours) = 2
    /\ call.permuted.available_hours[1].days = sched.available_hours[2].days
    /\ Len(sched.available_hours[2].time_ranges) = 2
    /\ call.permuted.available_hours[1].time_ranges =
           Exchanged(sched.available_hours[2].time_ranges, 1, 2)
    /\ should_block([sched EXCEPT !.available_hours = SubSeq(@, 1, 1)], call.at)

\* the earlier acquire() calls whose timestamps lay within the last
\* window_seconds when the latest caller arrived
StillInWindow ==
    {k \in 1..(Len(limiter.admitted) - 1) :
        limiter.admitted[k] > limiter.last.arrived - limiter.window_seconds}

\* the oldest of those timestamps
OldestInWindow ==
    CHOOSE t \in {limiter.admitted[k] : k \in StillInWindow} :
        \A k \in StillInWindow : t <= limiter.admitted[k]

(***************************************************************************)
(* C38: acquire() returns 0 and does not sleep when fewer than             *)
(* max_requests timestamps lie within the last window_seconds; when        *)
(* max_requests do, it sleeps for and returns exactly                      *)
(* oldest_timestamp + window_seconds - now, the time until the oldest      *)
(* request leaves the window.                                              *)
(***************************************************************************)
C38_WaitIsTimeToLeaveWindow ==
    (limiter.max_requests > 0 /\ limiter.admitted # <<>>) =>
        IF Cardinality(StillInWindow) < limiter.max_requests
        THEN /\ limiter.last.waited = 0
             /\ limiter.last.stamp = limiter.last.arrived
        ELSE /\ limiter.last.waited =
                    OldestInWindow + limiter.window_seconds - limiter.last.arrived
             /\ limiter.last.waited > 0
             /\ limiter.last.stamp >= limiter.last.arrived + limiter.last.waited

\* the (max_requests + 1)-th call inside one window, which has to wait more
\* than one second
C38_Witness ==
    /\ limiter.max_requests > 1
    /\ Len(limiter.admitted) = limiter.max_requests + 1
    /\ Cardinality(StillInWindow) = limiter.max_requests
    /\ limiter.last.waited >= 2
    /\ limiter.last.waited = OldestInWindow + limiter.window_seconds - limiter.last.arrived

\* the delays of the claim: 1, 2, 4, 8, 16, then 30 for every later retry
ClaimedDelay(k) == IF k < 5 THEN <<1, 2, 4, 8, 16>>[k + 1] ELSE 30

(***************************************************************************)
(* C39: the delay slept before retry number k (k = 0, 1, 2, ...) is        *)
(* min(1 * 2^k, 30) seconds, so the delays of one request are 1, 2, 4, 8,  *)
(* 16, 30, 30, ..., non-decreasing and never above 30; every delay is      *)
(* followed by another attempt, so none is slept after the final failed    *)
(* attempt.                                                                *)
(***************************************************************************)
C39_BackoffSequence ==
    InRequest =>
        /\ \A k \in 0..(Len(http.slept) - 1) :
              /\ http.slept[k + 1] = ClaimedDelay(k)
              /\ http.slept[k + 1] <= 30
              /\ k > 0 => http.slept[k] <= http.slept[k + 1]
        /\ Len(http.slept) <= http.retries
        /\ http.state = "returned" => Len(http.slept) = http.attempts - 1

\* a request that failed seven times: six delays, the last one capped, and
\* none after the seventh failure
C39_Witness ==
    /\ InRequest
    /\ http.state = "returned" /\ http.result = None
    /\ http.attempts = 7
    /\ http.slept = <<1, 2, 4, 8, 16, 30>>
    /\ Raised(http.seen[7]) # "none"

\* the state is one of SpecActive
InActive == "basis" \in DOMAIN call

\* the list the latest operation answered from has an entry with the id of
\* its argument, active or not
InFetchedList ==
    \E k \in DOMAIN call.basis[1].list : call.basis[1].list[k].id = call.domain

\* ... and that entry has active = false
InactiveInFetchedList ==
    \E k \in DOMAIN call.basis[1].list :
        call.basis[1].list[k] = Entry(call.domain, FALSE)

\* what the client itself has written for the domain since that list was
\* fetched
WrittenSince == call.basis[1].touch[call.domain]

(***************************************************************************)
(* C40 (as claimed): is_blocked(d), find_domain(d) and the cache's         *)
(* contains(d) are true iff an entry with id d is in the fetched list,     *)
(* whatever its `active` flag; and a sync pass sends no Block for a domain *)
(* that has such an entry.                                                 *)
(***************************************************************************)
C40_AsClaimed ==
    (InActive /\ call.op # "none" /\ call.basis # <<>>) =>
        /\ (call.res = "True") <=> InFetchedList
        /\ InFetchedList => call.posts = 0

(***************************************************************************)
(* C40 (amended): membership is decided by ids only.  is_blocked(d),       *)
(* find_domain(d) and contains(d) are true iff the client has blocked d    *)
(* since the list was fetched, or an entry with id d is in the fetched     *)
(* list, whatever its `active` flag, and the client has not unblocked d    *)
(* since; a domain whose entry has active = false therefore counts as      *)
(* blocked, and sync sends no Block for it.                                *)
(***************************************************************************)
C40_MembershipByIdOnly ==
    (InActive /\ call.op # "none" /\ call.basis # <<>>) =>
        /\ (call.res = "True") <=>
              \/ WrittenSince = "added"
              \/ WrittenSince = "none" /\ InFetchedList
        /\ (InactiveInFetchedList /\ WrittenSince # "removed") =>
              call.res = "True" /\ call.posts = 0

\* a pass finds the domain it should block in the list with active = false,
\* treats it as blocked and sends nothing, and the remote entry is still
\* inactive
C40_Witness ==
    /\ InActive /\ call.op = "sync" /\ call.basis # <<>>
    /\ InactiveInFetchedList /\ WrittenSince = "none"
    /\ call.res = "True" /\ call.posts = 0
    /\ \E k \in DOMAIN call.remote : call.remote[k] = Entry(call.domain, FALSE)

====
